---- MODULE Spec2Model ----
(***************************************************************************)
(* Response-validity heuristics of the rnet examples:                      *)
(*   ScrapingFailureDetector  (examples/scraping_failure_detection.py)     *)
(*   DynamicContentDetector   (examples/detect_missing_dynamic_content.py) *)
(*                                                                         *)
(* A response body is a sequence of chunks.  A chunk is `rep` consecutive  *)
(* copies of one piece of text (an atom): visible text, a whitespace run,  *)
(* a tag, a script / style / noscript block, a JSON-LD block or a price.   *)
(* Lengths are in characters.  The string primitives the detectors use     *)
(* (str.lower, `in`, str.count, re.findall, re.sub, json.loads) are given  *)
(* by their value on the texts of this vocabulary.                         *)
(***************************************************************************)
EXTENDS Integers, Sequences, FiniteSets, TLC

VARIABLES response, sfd, dcd, outcome, prior

vars == <<response, sfd, dcd, outcome, prior>>

-----------------------------------------------------------------------------
(* Generic helpers                                                         *)

Min(S) == CHOOSE x \in S : \A y \in S : x <= y

Max(S) == CHOOSE x \in S : \A y \in S : x >= y

RECURSIVE SumSeq(_)
SumSeq(s) == IF s = <<>> THEN 0 ELSE Head(s) + SumSeq(Tail(s))

RECURSIVE Concat(_)
Concat(ss) == IF ss = <<>> THEN <<>> ELSE Head(ss) \o Concat(Tail(ss))

Range(s) == {s[i] : i \in 1..Len(s)}

Prefix(s, n) == SubSeq(s, 1, IF Len(s) < n THEN Len(s) ELSE n)

\* Optional[int]: None, or an int
NoneInt == [some |-> FALSE, val |-> 0]

SomeInt(n) == [some |-> TRUE, val |-> n]

\* Python truthiness of an Optional[int]: None and 0 are falsy
TruthyInt(o) == o.some /\ o.val # 0

\* Optional[str]
NoneStr == [some |-> FALSE, val |-> ""]

SomeStr(s) == [some |-> TRUE, val |-> s]

TruthyStr(o) == o.some /\ o.val # ""

-----------------------------------------------------------------------------
(* Verdicts: Tuple[bool, Optional[str]]                                    *)

\* the reason None
NoReason == [some |-> FALSE, msg |-> "", num |-> 0, num2 |-> 0, str |-> "", list |-> <<>>]

\* a formatted reason: msg is the literal text of the f-string, the other
\* fields are the values formatted into it
Reason(msg, num, num2, str, list) ==
    [some |-> TRUE, msg |-> msg, num |-> num, num2 |-> num2, str |-> str, list |-> list]

\* return True, None
Pass == [valid |-> TRUE, reason |-> NoReason]

\* return False, f"..."
Fail(r) == [valid |-> FALSE, reason |-> r]

-----------------------------------------------------------------------------
(* String primitives on the vocabulary                                     *)

\* str.lower() of the texts that are not already lower-case
LowerTable ==
    ("Captcha" :> "captcha") @@
    ("CAPTCHA" :> "captcha") @@
    ("reCAPTCHA" :> "recaptcha") @@
    ("Blocked by Cloudflare" :> "blocked by cloudflare") @@
    ("Please Enable JavaScript" :> "please enable javascript") @@
    ("N/A" :> "n/a") @@
    ("TBD" :> "tbd") @@
    ("Showing 12 of 150" :> "showing 12 of 150") @@
    ("Next Page" :> "next page") @@
    ("Page 2" :> "page 2") @@
    ("<DIV ID=\"ROOT\"></DIV>" :> "<div id=\"root\"></div>") @@
    ("__NEXT_DATA__" :> "__next_data__") @@
    ("<BODY>" :> "<body>") @@
    ("Text/HTML" :> "text/html") @@
    ("CloudFlare" :> "cloudflare") @@
    ("http://x/Verify" :> "http://x/verify") @@
    ("AkamaiGHost" :> "akamaighost") @@
    ("CloudFlare via Akamai" :> "cloudflare via akamai")

Lower(s) == IF s \in DOMAIN LowerTable THEN LowerTable[s] ELSE s

\* the proper substrings of each text that some check looks for
SubTable ==
    ("recaptcha" :> {"captcha"}) @@
    ("blocked by cloudflare" :> {"blocked", "cloudflare"}) @@
    ("Blocked by Cloudflare" :> {"Blocked", "Cloudflare"}) @@
    ("please enable javascript" :> {"enable javascript"}) @@
    ("the price" :> {"price"}) @@
    ("add to cart" :> {"cart"}) @@
    ("<html>" :> {"<html"}) @@
    ("<div id=\"root\">" :> {"id=\"root\""}) @@
    ("<div id=\"root\"></div>" :> {"id=\"root\""}) @@
    ("<div class=\"spinner\">" :> {"spinner"}) @@
    ("<img data-src=\"a.jpg\">" :> {"data-src"}) @@
    ("<div class=\"skeleton\">" :> {"skeleton"}) @@
    ("<div data-infinite-scroll>" :> {"data-infinite-scroll"}) @@
    ("text/html; charset=utf-8" :> {"text/html"}) @@
    ("http://x/verify" :> {"verify"}) @@
    ("http://x/captcha" :> {"captcha"}) @@
    ("akamaighost" :> {"akamai"}) @@
    ("cloudflare via akamai" :> {"cloudflare", "akamai"})

\* the substrings of s among the texts the checks look for
Sub(s) == {s} \cup (IF s \in DOMAIN SubTable THEN SubTable[s] ELSE {})

\* p in s
In(p, s) == p = "" \/ p \in Sub(s)

\* s[:n] for the texts of the vocabulary that are longer than the n they are
\* cut to
SliceTable ==
    (<<"class=\"btn btn-primary btn-lg pagination-load-more js-more\"", 50>> :>
        "class=\"btn btn-primary btn-lg pagination-load-more")

\* s[:n]
Slice(s, n) == IF <<s, n>> \in DOMAIN SliceTable THEN SliceTable[<<s, n>>] ELSE s

-----------------------------------------------------------------------------
(* Response bodies                                                         *)

\* rep consecutive copies of one atom of kind k and text v; n is the length
\* of one copy (of the inner text for a noscript or style block)
Chunk(k, v, n, rep, var) == [k |-> k, v |-> v, n |-> n, rep |-> rep, var |-> var]

\* len("<noscript>") + len("</noscript>")
NoscriptTagsLen == 21

\* len("<style>") + len("</style>")
StyleTagsLen == 15

\* the markup a block adds around its inner text
MarkupLen(k) ==
    IF k = "noscript" THEN NoscriptTagsLen
    ELSE IF k = "style" THEN StyleTagsLen ELSE 0

ChunkLen(c) == c.rep * (c.n + MarkupLen(c.k))

\* len(html)
BodyLen(html) == SumSeq([i \in 1..Len(html) |-> ChunkLen(html[i])])

\* a variant of LowerBody that leaves the case of the body as it is
LowerBodyAsIs(html) == html

\* html.lower()
LowerBody(html) == [i \in 1..Len(html) |-> [html[i] EXCEPT !.v = Lower(@)]]

\* the text every block of a kind carries in its markup
KindSubs(k) ==
    IF k = "script" THEN {"<script"}
    ELSE IF k = "jsonld" THEN {"<script", "type=\"application/ld+json\""}
    ELSE IF k = "style" THEN {"<style"}
    ELSE IF k = "noscript" THEN {"<noscript>"}
    ELSE {}

ChunkSubs(c) == Sub(c.v) \cup KindSubs(c.k)

\* p in html
Contains(p, html) == p = "" \/ \E i \in 1..Len(html) : p \in ChunkSubs(html[i])

\* html.count(p)
Count(p, html) ==
    SumSeq([i \in 1..Len(html) |-> IF p \in ChunkSubs(html[i]) THEN html[i].rep ELSE 0])

\* s.find(p) for the substrings that do not start their text
OffsetTable ==
    (<<"captcha", "recaptcha">> :> 2) @@
    (<<"cloudflare", "blocked by cloudflare">> :> 11) @@
    (<<"enable javascript", "please enable javascript">> :> 7)

\* len("<noscript>")
NoscriptOpenLen == 10

\* len("<style>")
StyleOpenLen == 7

\* len("<script>")
ScriptOpenLen == 8

\* the offset of the first occurrence of p in a chunk that holds it
OffsetIn(p, c) ==
    IF p \in KindSubs(c.k) THEN 0
    ELSE (IF c.k = "noscript" THEN NoscriptOpenLen
          ELSE IF c.k = "style" THEN StyleOpenLen
          ELSE IF c.k = "script" THEN ScriptOpenLen ELSE 0)
         + (IF <<p, c.v>> \in DOMAIN OffsetTable THEN OffsetTable[<<p, c.v>>] ELSE 0)

\* html.find(p): the offset of the first occurrence of p (p occurs in html)
Find(p, html) ==
    LET i == Min({j \in 1..Len(html) : p \in ChunkSubs(html[j])})
    IN  BodyLen(SubSeq(html, 1, i - 1)) + OffsetIn(p, html[i])

-----------------------------------------------------------------------------
(* The response snapshot (rnet.Response)                                   *)

\* response.headers.get(name): the first header of that name, or None
HeadersGet(headers, name) ==
    LET hits == {i \in 1..Len(headers) : headers[i].name = name}
    IN  IF hits = {} THEN NoneStr ELSE SomeStr(headers[Min(hits)].value)

\* response.status.is_success()
IsSuccess(status) == status >= 200 /\ status <= 299

-----------------------------------------------------------------------------
(* ScrapingFailureDetector                                                 *)

BOT_INDICATORS ==
    << "captcha", "recaptcha", "hcaptcha", "cloudflare", "cf-browser-verification",
       "challenge-platform", "access denied", "blocked", "security check", "ray id:",
       "enable javascript", "datadome", "imperva", "perimeter x", "distil networks",
       "akamai", "incapsula", "please verify you are human", "are you a robot",
       "automated access", "unusual traffic", "__cf_chl_jschl_tk__", "cf_clearance",
       "bot detection" >>

\* len(indicator) for the indicators of BOT_INDICATORS
IndicatorLen ==
    << 7, 9, 8, 10, 23, 18, 13, 7, 14, 7, 17, 8, 7, 11, 15, 6, 9, 27, 15, 16, 15, 19,
       12, 13 >>

SUSPICIOUS_HEADERS ==
    << [name |-> "cf-ray", isList |-> FALSE, indicator |-> <<"Cloudflare protection">>],
       [name |-> "cf-mitigated", isList |-> FALSE, indicator |-> <<"Cloudflare mitigation">>],
       [name |-> "x-datadome-cid", isList |-> FALSE, indicator |-> <<"DataDome protection">>],
       [name |-> "x-distil-cs", isList |-> FALSE, indicator |-> <<"Distil Networks">>],
       [name |-> "server", isList |-> TRUE, indicator |-> <<"akamai", "cloudflare", "imperva">>] >>

\* __init__: the instance fields from the constructor's arguments
\* (required_markers is None when the caller gives none)
ScrapingFailureDetector(a) ==
    [min_content_length |-> a.min_content_length,
     max_content_length |-> a.max_content_length,
     expected_content_type |-> a.expected_content_type,
     required_markers |-> IF a.required_markers.some /\ a.required_markers.val # <<>>
                          THEN a.required_markers.val ELSE <<>>,
     check_js_rendering |-> a.check_js_rendering,
     min_text_ratio |-> a.min_text_ratio]

\* a variant of SfdDefaults in which no minimum length is asked for by default
SfdDefaultsNoMinimum ==
    [min_content_length |-> 0,
     max_content_length |-> NoneInt,
     expected_content_type |-> "text/html",
     required_markers |-> [some |-> FALSE, val |-> <<>>],
     check_js_rendering |-> FALSE,
     min_text_ratio |-> 50]

\* the defaults of __init__; min_text_ratio is in thousandths (0.05)
SfdDefaults ==
    [min_content_length |-> 500,
     max_content_length |-> NoneInt,
     expected_content_type |-> "text/html",
     required_markers |-> [some |-> FALSE, val |-> <<>>],
     check_js_rendering |-> FALSE,
     min_text_ratio |-> 50]

RECURSIVE CheckHeadersFrom(_, _)
CheckHeadersFrom(resp, i) ==
    IF i > Len(SUSPICIOUS_HEADERS) THEN Pass
    ELSE
      LET e == SUSPICIOUS_HEADERS[i]
          header_value == HeadersGet(resp.headers, e.name)
      IN  IF TruthyStr(header_value)
          THEN IF e.isList
               THEN LET hits == {j \in 1..Len(e.indicator) :
                                   In(Lower(e.indicator[j]), Lower(header_value.val))}
                    IN  IF hits # {}
                        THEN Fail(Reason("Protection detected via header", 0, 0,
                                         e.indicator[Min(hits)], <<e.name>>))
                        ELSE CheckHeadersFrom(resp, i + 1)
               ELSE Fail(Reason("Protection detected", 0, 0, e.indicator[1], <<>>))
          ELSE CheckHeadersFrom(resp, i + 1)

\* a variant of _check_headers that compares a server value with the candidates
\* letter for letter
CheckHeadersExactCase(self, resp) ==
    LET fires(i) ==
          LET e == SUSPICIOUS_HEADERS[i]
              header_value == HeadersGet(resp.headers, e.name)
          IN  /\ TruthyStr(header_value)
              /\ e.isList => \E j \in 1..Len(e.indicator) : In(e.indicator[j], header_value.val)
        hits == {i \in 1..Len(SUSPICIOUS_HEADERS) : fires(i)}
    IN  IF hits = {} THEN Pass
        ELSE LET e == SUSPICIOUS_HEADERS[Min(hits)]
                 header_value == HeadersGet(resp.headers, e.name)
             IN  IF e.isList
                 THEN Fail(Reason("Protection detected via header", 0, 0,
                                  e.indicator[Min({j \in 1..Len(e.indicator) :
                                                     In(e.indicator[j], header_value.val)})],
                                  <<e.name>>))
                 ELSE Fail(Reason("Protection detected", 0, 0, e.indicator[1], <<>>))

_check_headers(self, resp) == CheckHeadersFrom(resp, 1)

_check_content_type(self, resp) ==
    LET got == HeadersGet(resp.headers, "content-type")
        content_type == IF got.some THEN got.val ELSE ""
    IN  IF self.expected_content_type # "" /\ ~In(self.expected_content_type, content_type)
        THEN Fail(Reason("Wrong content-type", 0, 0, content_type,
                         <<self.expected_content_type>>))
        ELSE Pass

RedirectKeywords == <<"captcha", "challenge", "verify", "blocked">>

BlockingStatuses == {503, 403, 429}

\* the ceiling on the number of hops
MaxRedirects == 5

\* the per-hop loop: the first hop, in order, whose URL holds a keyword or
\* whose status is a blocking one decides
RECURSIVE RedirectHops(_, _)
RedirectHops(history, i) ==
    IF i > Len(history) THEN Pass
    ELSE IF \E j \in 1..Len(RedirectKeywords) : In(RedirectKeywords[j], Lower(history[i].url))
         THEN Fail(Reason("Suspicious redirect", 0, 0, history[i].url, <<>>))
         ELSE IF history[i].status \in BlockingStatuses
              THEN Fail(Reason("Blocking status in redirect chain", history[i].status, 0, "", <<>>))
              ELSE RedirectHops(history, i + 1)

\* a variant of _check_redirects that looks at each hop before it looks for a loop
RedirectsHopsFirst(self, resp) ==
    IF resp.history = <<>> THEN Pass
    ELSE
      LET urls == [i \in 1..Len(resp.history) |-> resp.history[i].url]
          hops == RedirectHops(resp.history, 1)
      IN  IF ~hops.valid THEN hops
          ELSE IF Len(urls) # Cardinality(Range(urls))
               THEN Fail(Reason("Redirect loop detected", 0, 0, "", <<>>))
               ELSE IF Len(resp.history) > MaxRedirects
                    THEN Fail(Reason("Too many redirects", Len(resp.history), 0, "", <<>>))
                    ELSE Pass

_check_redirects(self, resp) ==
    IF resp.history = <<>> THEN Pass
    ELSE
      LET urls == [i \in 1..Len(resp.history) |-> resp.history[i].url]
      IN  IF Len(urls) # Cardinality(Range(urls))
          THEN Fail(Reason("Redirect loop detected", 0, 0, "", <<>>))
          ELSE LET hops == RedirectHops(resp.history, 1)
               IN  IF ~hops.valid THEN hops
                   ELSE IF Len(resp.history) > MaxRedirects
                        THEN Fail(Reason("Too many redirects", Len(resp.history), 0, "", <<>>))
                        ELSE Pass

\* a variant of _check_content_length that returns False, None for an empty body
ContentLengthNoReason(self, html) ==
    LET content_length == BodyLen(html)
    IN  IF content_length = 0 THEN [valid |-> FALSE, reason |-> NoReason]
        ELSE IF content_length < self.min_content_length
             THEN Fail(Reason("Content too small", content_length,
                              self.min_content_length, "", <<>>))
             ELSE Pass

_check_content_length(self, html) ==
    LET content_length == BodyLen(html)
    IN  IF content_length < self.min_content_length
        THEN Fail(Reason("Content too small", content_length, self.min_content_length, "", <<>>))
        ELSE IF TruthyInt(self.max_content_length)
                /\ content_length > self.max_content_length.val
             THEN Fail(Reason("Content too large", content_length,
                              self.max_content_length.val, "", <<>>))
             ELSE IF content_length = 0
                  THEN Fail(Reason("Empty response body", 0, 0, "", <<>>))
                  ELSE Pass

\* the width of the context shown on each side of the indicator
ContextWidth == 50

\* a variant of _check_bot_indicators that reports the indicator whose first
\* occurrence comes earliest in the body
BotIndicatorsEarliestInBody(self, html) ==
    LET html_lower == LowerBody(html)
        hits == {i \in 1..Len(BOT_INDICATORS) : Contains(BOT_INDICATORS[i], html_lower)}
    IN  IF hits = {} THEN Pass
        ELSE
          LET i == CHOOSE h \in hits :
                     \A g \in hits :
                       \/ Find(BOT_INDICATORS[h], html_lower) < Find(BOT_INDICATORS[g], html_lower)
                       \/ /\ Find(BOT_INDICATORS[h], html_lower) = Find(BOT_INDICATORS[g], html_lower)
                          /\ h <= g
              at == Find(BOT_INDICATORS[i], html_lower)
              context_start == Max({0, at - ContextWidth})
              context_end == Min({BodyLen(html), at + IndicatorLen[i] + ContextWidth})
          IN  Fail(Reason("Bot detection indicator found", context_start, context_end,
                          BOT_INDICATORS[i], <<>>))

_check_bot_indicators(self, html) ==
    LET html_lower == LowerBody(html)
        hits == {i \in 1..Len(BOT_INDICATORS) : Contains(BOT_INDICATORS[i], html_lower)}
    IN  IF hits = {} THEN Pass
        ELSE
          LET i == Min(hits)
              at == Find(BOT_INDICATORS[i], html_lower)
              context_start == Max({0, at - ContextWidth})
              context_end == Min({BodyLen(html), at + IndicatorLen[i] + ContextWidth})
          IN  Fail(Reason("Bot detection indicator found", context_start, context_end,
                          BOT_INDICATORS[i], <<>>))

_check_required_markers(self, html) ==
    IF self.required_markers = <<>> THEN Pass
    ELSE
      LET Missing(marker) == ~Contains(marker, html)
          missing == SelectSeq(self.required_markers, Missing)
      IN  IF missing # <<>>
          THEN Fail(Reason("Missing required content markers", 0, 0, "", missing))
          ELSE Pass

js_placeholder_indicators ==
    << <<"data-reactroot", "React root">>,
       <<"id=\"root\"", "React/Vue root element">>,
       <<"id=\"app\"", "Vue/SPA app element">>,
       <<"data-vue-app", "Vue app">>,
       <<"ng-app", "Angular app">>,
       <<"ng-version", "Angular framework">>,
       <<"<div id=\"root\"></div>", "Empty React root">>,
       <<"<div id=\"app\"></div>", "Empty app container">>,
       <<"<main></main>", "Empty main element">>,
       <<"skeleton-loader", "Skeleton loading state">>,
       <<"placeholder-glow", "Placeholder animation">>,
       <<"spinner", "Loading spinner">> >>

\* the atoms that are a div with nothing in it: <div[^>]*>\s*</div>
EmptyDivs == {"<div id=\"root\"></div>", "<div id=\"app\"></div>", "<div></div>"}

\* the index of the first chunk after i that is not whitespace (0: none)
NextNonWs(html, i) ==
    LET later == {j \in (i + 1)..Len(html) : html[j].k # "ws"}
    IN  IF later = {} THEN 0 ELSE Min(later)

\* re.search(r'<body[^>]*>\s*<div[^>]*>\s*</div>\s*<script', html_lower)
SingleDivPattern(html_lower) ==
    \E i \in 1..Len(html_lower) :
      /\ html_lower[i].k = "tag" /\ html_lower[i].v = "<body>"
      /\ LET j == NextNonWs(html_lower, i)
         IN  /\ j # 0
             /\ html_lower[j].k = "tag" /\ html_lower[j].v \in EmptyDivs
             /\ html_lower[j].rep = 1
             /\ LET k == NextNonWs(html_lower, j)
                IN  k # 0 /\ html_lower[k].k \in {"script", "jsonld"}

_check_js_placeholders(self, html) ==
    LET html_lower == LowerBody(html)
        Hit(p) == Contains(Lower(p[1]), html_lower)
        found == SelectSeq(js_placeholder_indicators, Hit)
        detected == [i \in 1..Len(found) |-> found[i][2]]
                    \o (IF SingleDivPattern(html_lower)
                        THEN <<"Single empty div with scripts (SPA pattern)">> ELSE <<>>)
    IN  IF detected # <<>>
        THEN Fail(Reason("JS placeholder detected", 0, 0, "", Prefix(detected, 3)))
        ELSE Pass

\* re.sub(r'<script[^>]*>.*?</script>', '', html): the script blocks go
RemoveScripts(html) == SelectSeq(html, LAMBDA c : c.k \notin {"script", "jsonld"})

\* re.sub(r'<style[^>]*>.*?</style>', '', html): the style blocks go
RemoveStyles(html) == SelectSeq(html, LAMBDA c : c.k # "style")

\* re.sub(r'<[^>]+>', '', html): the tags go, and so does the markup of the
\* blocks still there, whose inner text stays
RemoveTags(html) ==
    LET kept == SelectSeq(html, LAMBDA c : c.k # "tag")
    IN  [i \in 1..Len(kept) |->
           IF kept[i].k \in {"noscript", "style"} THEN [kept[i] EXCEPT !.k = "text"]
           ELSE kept[i]]

\* len(re.sub(r'\s+', ' ', text).strip()): every whitespace run between two
\* pieces of text counts one character, leading and trailing ones none
NormalisedLen(text) ==
    LET solid == {i \in 1..Len(text) : text[i].k # "ws"}
        runs == {i \in 1..Len(text) :
                   /\ text[i].k = "ws"
                   /\ (i = 1 \/ text[i - 1].k # "ws")
                   /\ \E a \in solid : a < i
                   /\ \E b \in solid : b > i}
    IN  SumSeq([i \in 1..Len(text) |-> IF i \in solid THEN ChunkLen(text[i]) ELSE 0])
        + Cardinality(runs)

\* len(text.strip())
StrippedLen(text) ==
    LET solid == {i \in 1..Len(text) : text[i].k # "ws"}
    IN  IF solid = {} THEN 0
        ELSE BodyLen(SubSeq(text, Min(solid), Max(solid)))

\* total_size > 1000
DensityMinSize == 1000

\* script_count > 15
HeavyScriptCount == 15

\* text_ratio < 0.15, in thousandths
HeavyTextRatio == 150

\* the scale of the ratios: thousandths
RatioScale == 1000

\* a variant of DensityTextSize that leaves the script blocks in the text
DensityTextSizeWithScripts(html) == NormalisedLen(RemoveTags(RemoveStyles(html)))

\* len(text_only) of _check_content_density
DensityTextSize(html) == NormalisedLen(RemoveTags(RemoveStyles(RemoveScripts(html))))

_check_content_density(self, html) ==
    LET total_size == BodyLen(html)
        text_size == DensityTextSize(html)
        script_count == Count("<script", LowerBody(html))
    IN  IF total_size = 0 THEN Fail(Reason("Empty HTML", 0, 0, "", <<>>))
        ELSE IF text_size * RatioScale < self.min_text_ratio * total_size
                /\ total_size > DensityMinSize
             THEN Fail(Reason("Low content density", script_count, text_size, "", <<>>))
             ELSE IF script_count > HeavyScriptCount
                     /\ text_size * RatioScale < HeavyTextRatio * total_size
                  THEN Fail(Reason("Heavy JS usage", script_count, text_size, "", <<>>))
                  ELSE Pass

data_embedding_patterns ==
    << <<"type=\"application/json\"", "JSON script tag">>,
       <<"type=\"application/ld+json\"", "JSON-LD structured data">>,
       <<"__initial_state__", "Initial state data">>,
       <<"__preloaded_state__", "Preloaded state">>,
       <<"window.__data__", "Window data object">>,
       <<"id=\"__next_data__\"", "Next.js data">>,
       <<"__next_data__", "Next.js SSR data">>,
       <<"window.__initial_data__", "Initial data">> >>

\* len(visible_content) < 500
EmbeddedVisibleMin == 500

_check_embedded_data(self, html) ==
    LET html_lower == LowerBody(html)
        Hit(p) == Contains(Lower(p[1]), html_lower)
        found == SelectSeq(data_embedding_patterns, Hit)
        found_patterns == [i \in 1..Len(found) |-> found[i][2]]
        visible_content == StrippedLen(RemoveTags(RemoveScripts(html)))
    IN  IF found_patterns # <<>> /\ visible_content < EmbeddedVisibleMin
        THEN Fail(Reason("Found embedded data requiring JS", 0, 0, "",
                         Prefix(found_patterns, 2)))
        ELSE Pass

-----------------------------------------------------------------------------
(* Regular expressions on the vocabulary                                   *)

\* for each atom, the patterns (given by their source text) that match in it,
\* once per copy, under re.IGNORECASE
ReTable ==
    ("<button class=\"btn load-more\">" :> {"class=\"[^\"]*load-more[^\"]*\""}) @@
    ("<button class=\"btn btn-primary btn-lg pagination-load-more js-more\">" :>
        {"class=\"[^\"]*load-more[^\"]*\""}) @@
    ("Showing 12 of 150" :> {"showing \\d+ of \\d+"}) @@
    ("page=1" :> {"page[=\\s]+(\\d+)"}) @@
    ("Page 2" :> {"page[=\\s]+(\\d+)", "next page|page 2"}) @@
    ("Next Page" :> {"next page|page 2"}) @@
    ("<div class=\"product-card\" data-product-id=\"1\">" :>
        {"data-product-id=\"[^\"]*\"", "class=\"[^\"]*product-card[^\"]*\""}) @@
    ("<li class=\"item\">" :> {"class=\"[^\"]*item[^\"]*\""}) @@
    ("<article>" :> {"<article[^>]*>"}) @@
    ("<div class=\"post\">" :> {"class=\"[^\"]*post[^\"]*\""}) @@
    ("$0.00" :> {"\\$\\d+\\.\\d{2}"}) @@
    ("$" :> {"\\$\\d+\\.\\d{2}"}) @@
    ("4.5 stars" :> {"\\d+\\.\\d+\\s*(?:stars?)"})

\* the text a pattern matches in an atom, where it is not the whole atom
ReTextTable ==
    (<<"class=\"[^\"]*load-more[^\"]*\"", "<button class=\"btn load-more\">">> :>
        "class=\"btn load-more\"") @@
    (<<"class=\"[^\"]*load-more[^\"]*\"",
       "<button class=\"btn btn-primary btn-lg pagination-load-more js-more\">">> :>
        "class=\"btn btn-primary btn-lg pagination-load-more js-more\"") @@
    (<<"page[=\\s]+(\\d+)", "page=1">> :> "1") @@
    (<<"page[=\\s]+(\\d+)", "Page 2">> :> "2") @@
    (<<"next page|page 2", "Next Page">> :> "Next Page")

ReHits(v) == IF v \in DOMAIN ReTable THEN ReTable[v] ELSE {}

ReText(re, v) == IF <<re, v>> \in DOMAIN ReTextTable THEN ReTextTable[<<re, v>>] ELSE v

\* the matches of a pattern in one chunk: one per copy; the copies of a chunk
\* with var = 1 are rep different values (the prices $1.00, $2.00, ...)
ChunkMatches(re, c) ==
    IF re \in ReHits(c.v)
    THEN [i \in 1..c.rep |-> <<ReText(re, c.v), IF c.var = 1 THEN i ELSE 0>>]
    ELSE <<>>

\* re.findall(re, html, re.IGNORECASE)
FindAll(re, html) == Concat([i \in 1..Len(html) |-> ChunkMatches(re, html[i])])

\* int(p) of a matched page number
PageNumber == ("1" :> 1) @@ ("2" :> 2)

-----------------------------------------------------------------------------
(* DynamicContentDetector                                                  *)

\* __init__ (expected_patterns is <<>> when the caller gives none)
DynamicContentDetector(a) ==
    [min_item_count |-> a.min_item_count,
     expected_patterns |-> a.expected_patterns,
     check_lazy_loading |-> a.check_lazy_loading,
     check_pagination |-> a.check_pagination]

DcdDefaults ==
    [min_item_count |-> NoneInt,
     expected_patterns |-> <<>>,
     check_lazy_loading |-> TRUE,
     check_pagination |-> TRUE]

lazy_indicators ==
    << <<"data-src", "Lazy-load images not loaded">>,
       <<"data-lazy", "Lazy content pending">>,
       <<"loading=\"lazy\"", "Native lazy loading">>,
       <<"class=\"lazy", "Lazy load class">>,
       <<"placeholder.", "Placeholder images">>,
       <<"data:image/svg+xml", "SVG placeholder">>,
       <<"blur-up", "Progressive image placeholder">>,
       <<"skeleton", "Skeleton loading state">>,
       <<"$0.00", "Unloaded price">>,
       <<"$-.--", "Empty price placeholder">>,
       <<"N/A", "Missing data placeholder">>,
       <<"TBD", "To-be-determined placeholder">> >>

\* count > 3
LazyThreshold == 3

\* a variant of _check_lazy_loading that lists the last three indicators found
LazyLoadingLastThree(self, html) ==
    LET html_lower == LowerBody(html)
        CountOf(p) == Count(Lower(p[1]), html_lower)
        Many(p) == CountOf(p) > LazyThreshold
        hits == SelectSeq(lazy_indicators, Many)
        found == [i \in 1..Len(hits) |-> <<hits[i][2], CountOf(hits[i])>>]
    IN  IF found # <<>>
        THEN Fail(Reason("Unloaded content", 0, 0, "",
                         SubSeq(found, Max({1, Len(found) - 2}), Len(found))))
        ELSE Pass

_check_lazy_loading(self, html) ==
    LET html_lower == LowerBody(html)
        CountOf(p) == Count(Lower(p[1]), html_lower)
        Many(p) == CountOf(p) > LazyThreshold
        hits == SelectSeq(lazy_indicators, Many)
        found == [i \in 1..Len(hits) |-> <<hits[i][2], CountOf(hits[i])>>]
    IN  IF found # <<>>
        THEN Fail(Reason("Unloaded content", 0, 0, "", Prefix(found, 3)))
        ELSE Pass

\* matches[0][:50]
MatchedTextMax == 50

load_more_patterns ==
    << "class=\"[^\"]*load-more[^\"]*\"", "id=\"load-more\"", ">load more<",
       ">show more<", ">view more<", "load additional", "see all \\d+ items",
       "showing \\d+ of \\d+" >>

scroll_patterns ==
    << "data-infinite-scroll", "infinite-scroll-container", "scroll-to-load",
       "data-next-page" >>

\* a variant of _check_pagination that looks for the scroll triggers before it
\* looks at the page numbers
PaginationScrollFirst(self, html) ==
    LET loaded == {i \in 1..Len(load_more_patterns) :
                     FindAll(load_more_patterns[i], html) # <<>>}
        page_indicators == FindAll("page[=\\s]+(\\d+)", html)
        max_page == Max({PageNumber[page_indicators[i][1]] :
                           i \in 1..Len(page_indicators)})
        scrolls == {i \in 1..Len(scroll_patterns) :
                      Contains(Lower(scroll_patterns[i]), LowerBody(html))}
    IN  IF loaded # {}
        THEN Fail(Reason("Unpaginated content detected", 0, 0,
                         Slice(FindAll(load_more_patterns[Min(loaded)], html)[1][1],
                               MatchedTextMax),
                         <<>>))
        ELSE IF scrolls # {}
             THEN Fail(Reason("Infinite scroll not triggered", 0, 0,
                              scroll_patterns[Min(scrolls)], <<>>))
             ELSE IF /\ page_indicators # <<>>
                     /\ max_page = 1
                     /\ FindAll("next page|page 2", html) # <<>>
                  THEN Fail(Reason("Only first page content loaded", 0, 0, "", <<>>))
                  ELSE Pass

_check_pagination(self, html) ==
    LET loaded == {i \in 1..Len(load_more_patterns) :
                     FindAll(load_more_patterns[i], html) # <<>>}
        page_indicators == FindAll("page[=\\s]+(\\d+)", html)
        max_page == Max({PageNumber[page_indicators[i][1]] :
                           i \in 1..Len(page_indicators)})
        scrolls == {i \in 1..Len(scroll_patterns) :
                      Contains(Lower(scroll_patterns[i]), LowerBody(html))}
    IN  IF loaded # {}
        THEN Fail(Reason("Unpaginated content detected", 0, 0,
                         Slice(FindAll(load_more_patterns[Min(loaded)], html)[1][1],
                               MatchedTextMax),
                         <<>>))
        ELSE IF /\ page_indicators # <<>>
                /\ max_page = 1
                /\ FindAll("next page|page 2", html) # <<>>
             THEN Fail(Reason("Only first page content loaded", 0, 0, "", <<>>))
             ELSE IF scrolls # {}
                  THEN Fail(Reason("Infinite scroll not triggered", 0, 0,
                                   scroll_patterns[Min(scrolls)], <<>>))
                  ELSE Pass

item_patterns ==
    << <<"data-product-id=\"[^\"]*\"", "products">>,
       <<"class=\"[^\"]*product-card[^\"]*\"", "product cards">>,
       <<"class=\"[^\"]*item[^\"]*\"", "items">>,
       <<"<article[^>]*>", "articles">>,
       <<"data-item-id=\"[^\"]*\"", "items">>,
       <<"class=\"[^\"]*post[^\"]*\"", "posts">> >>

\* the loop over item_patterns: max_count and pattern_used after pattern i
RECURSIVE ItemScan(_, _)
ItemScan(html, i) ==
    IF i = 0 THEN [max_count |-> 0, pattern_used |-> "None"]
    ELSE LET before == ItemScan(html, i - 1)
             count == Len(FindAll(item_patterns[i][1], html))
         IN  IF count > before.max_count
             THEN [max_count |-> count, pattern_used |-> item_patterns[i][2]]
             ELSE before

_check_item_count(self, html, min_expected) ==
    LET scan == ItemScan(html, Len(item_patterns))
    IN  IF scan.max_count < min_expected
        THEN Fail(Reason("Only found", scan.max_count, min_expected, scan.pattern_used, <<>>))
        ELSE Pass

\* actual_count >= 5
RepetitionMinMatches == 5

\* most_common_count / actual_count > 0.8, in thousandths
SameValueRatio == 800

\* config.get('min_count', 1)
MinCountOf(config) == IF config.min_count.some THEN config.min_count.val ELSE 1

\* Counter(matches).most_common(1)[0][1]
MostCommonCount(matches) ==
    Max({Cardinality({i \in 1..Len(matches) : matches[i] = m}) : m \in Range(matches)})

\* the loop over expected_patterns, from entry i on; an entry is
\* [name, pattern, min_count], pattern "" standing for no pattern
RECURSIVE ValidateFrom(_, _, _)
ValidateFrom(self, html, i) ==
    IF i > Len(self.expected_patterns) THEN Pass
    ELSE
      LET config == self.expected_patterns[i]
          min_count == MinCountOf(config)
          matches == FindAll(config.pattern, html)
          actual_count == Len(matches)
      IN  IF config.pattern = "" THEN ValidateFrom(self, html, i + 1)
          ELSE IF actual_count < min_count
               THEN Fail(Reason("Only found", actual_count, min_count, config.name, <<>>))
               ELSE IF matches # <<>> /\ actual_count >= RepetitionMinMatches
                    THEN IF Cardinality(Range(matches)) = 1
                         THEN Fail(Reason("All have identical value", 0, 0, config.name,
                                          <<matches[1][1]>>))
                         ELSE IF MostCommonCount(matches) * RatioScale
                                    > SameValueRatio * actual_count
                              THEN Fail(Reason("have same value", MostCommonCount(matches),
                                               actual_count, config.name, <<>>))
                              ELSE ValidateFrom(self, html, i + 1)
                    ELSE ValidateFrom(self, html, i + 1)

\* a variant of _validate_patterns that only counts the matches
ValidateCountsOnly(self, html) ==
    LET short == {i \in 1..Len(self.expected_patterns) :
                    LET config == self.expected_patterns[i]
                    IN  /\ config.pattern # ""
                        /\ Len(FindAll(config.pattern, html)) < MinCountOf(config)}
    IN  IF short = {} THEN Pass
        ELSE LET config == self.expected_patterns[Min(short)]
             IN  Fail(Reason("Only found", Len(FindAll(config.pattern, html)),
                             MinCountOf(config), config.name, <<>>))

_validate_patterns(self, html) == ValidateFrom(self, html, 1)

\* total_noscript > 1000
NoscriptMax == 1000

js_required_messages ==
    << "please enable javascript", "requires javascript", "javascript is disabled",
       "javascript must be enabled", "turn on javascript" >>

\* re.findall(r'<noscript>(.*?)</noscript>', html): the noscript blocks
NoscriptBlocks(html) == SelectSeq(html, LAMBDA c : c.k = "noscript")

_check_noscript(self, html) ==
    LET matches == NoscriptBlocks(html)
        total_noscript == SumSeq([i \in 1..Len(matches) |-> matches[i].rep * matches[i].n])
        noscript_content_lower == {Lower(matches[i].v) : i \in 1..Len(matches)}
        html_lower == LowerBody(html)
        hits == {i \in 1..Len(js_required_messages) :
                   /\ Contains(js_required_messages[i], html_lower)
                   /\ \A t \in noscript_content_lower : ~In(js_required_messages[i], t)}
    IN  IF matches # <<>> /\ total_noscript > NoscriptMax
        THEN Fail(Reason("Large noscript content", total_noscript, 0, "", <<>>))
        ELSE IF hits # {}
             THEN Fail(Reason("JS-required message in main content", 0, 0,
                              js_required_messages[Min(hits)], <<>>))
             ELSE Pass

\* a parsed JSON-LD payload: kind is "dict", "other" (valid JSON that is no
\* object) or "malformed"; name, price and lowPrice are the values of the
\* keys (None when absent or null); offers is "absent", "dict" or "other"
\* (null, a list, a string); items is len(itemListElement)
Doc(kind, type, name, offers, price, lowPrice, items) ==
    [kind |-> kind, type |-> type, name |-> name, offers |-> offers,
     price |-> price, lowPrice |-> lowPrice, items |-> items]

\* json.loads(match.strip()) on the payloads of the vocabulary
JsonTable ==
    ("{\"@type\":\"Product\",\"name\":\"X\",\"offers\":{\"price\":\"9.99\"}}" :>
        Doc("dict", "Product", SomeStr("X"), "dict", SomeStr("9.99"), NoneStr, 0)) @@
    ("{\"@type\":\"Product\",\"name\":\"X\",\"offers\":{\"lowPrice\":\"5.00\"}}" :>
        Doc("dict", "Product", SomeStr("X"), "dict", NoneStr, SomeStr("5.00"), 0)) @@
    ("{\"@type\":\"Product\",\"name\":\"X\",\"offers\":{}}" :>
        Doc("dict", "Product", SomeStr("X"), "dict", NoneStr, NoneStr, 0)) @@
    ("{\"@type\":\"Product\",\"name\":\"X\",\"offers\":{\"price\":\"\"}}" :>
        Doc("dict", "Product", SomeStr("X"), "dict", SomeStr(""), NoneStr, 0)) @@
    ("{\"@type\":\"Product\",\"name\":\"X\"}" :>
        Doc("dict", "Product", SomeStr("X"), "absent", NoneStr, NoneStr, 0)) @@
    ("{\"@type\":\"Product\",\"name\":\"X\",\"offers\":null}" :>
        Doc("dict", "Product", SomeStr("X"), "other", NoneStr, NoneStr, 0)) @@
    ("{\"@type\":\"Product\",\"name\":\"X\",\"offers\":[]}" :>
        Doc("dict", "Product", SomeStr("X"), "other", NoneStr, NoneStr, 0)) @@
    ("{\"@type\":\"Product\",\"offers\":{\"price\":\"9.99\"}}" :>
        Doc("dict", "Product", NoneStr, "dict", SomeStr("9.99"), NoneStr, 0)) @@
    ("{\"@type\":\"Product\",\"name\":\"\",\"offers\":{\"price\":\"9.99\"}}" :>
        Doc("dict", "Product", SomeStr(""), "dict", SomeStr("9.99"), NoneStr, 0)) @@
    ("{\"@type\":\"ItemList\",\"itemListElement\":[]}" :>
        Doc("dict", "ItemList", NoneStr, "absent", NoneStr, NoneStr, 0)) @@
    ("{\"@type\":\"ItemList\"}" :>
        Doc("dict", "ItemList", NoneStr, "absent", NoneStr, NoneStr, 0)) @@
    ("{\"@type\":\"ItemList\",\"itemListElement\":[1,2]}" :>
        Doc("dict", "ItemList", NoneStr, "absent", NoneStr, NoneStr, 2)) @@
    ("{\"@type\":\"Article\"}" :>
        Doc("dict", "Article", NoneStr, "absent", NoneStr, NoneStr, 0)) @@
    ("{}" :> Doc("dict", "", NoneStr, "absent", NoneStr, NoneStr, 0)) @@
    ("[1,2]" :> Doc("other", "", NoneStr, "absent", NoneStr, NoneStr, 0)) @@
    ("{\"@type\":" :> Doc("malformed", "", NoneStr, "absent", NoneStr, NoneStr, 0))

JsonLoads(text) == JsonTable[text]

\* re.findall(json_ld_pattern, html): the payloads of the JSON-LD blocks
JsonLdPayloads(html) ==
    Concat([i \in 1..Len(html) |->
              IF html[i].k = "jsonld" THEN [j \in 1..html[i].rep |-> html[i].v] ELSE <<>>])

\* the loop over the payloads, from payload i on
RECURSIVE StructuredFrom(_, _)
StructuredFrom(matches, i) ==
    IF i > Len(matches) THEN Pass
    ELSE
      LET data == JsonLoads(matches[i])
      IN  IF data.kind = "malformed"
          THEN Fail(Reason("Malformed JSON-LD at index", i, 0, "", <<>>))
          ELSE IF data.kind = "dict" /\ data.type = "Product"
               THEN IF ~TruthyStr(data.name)
                    THEN Fail(Reason("Product schema missing name", i, 0, "", <<>>))
                    ELSE IF /\ data.offers \in {"absent", "dict"}
                            /\ ~TruthyStr(data.price) /\ ~TruthyStr(data.lowPrice)
                         THEN Fail(Reason("Product schema missing price", i, 0, "", <<>>))
                         ELSE StructuredFrom(matches, i + 1)
               ELSE IF data.kind = "dict" /\ data.type = "ItemList" /\ data.items = 0
                    THEN Fail(Reason("ItemList schema has no items", i, 0, "", <<>>))
                    ELSE StructuredFrom(matches, i + 1)

_check_structured_data(self, html) == StructuredFrom(JsonLdPayloads(html), 1)

-----------------------------------------------------------------------------
(* check_response of the two detectors                                     *)

\* await response.text(): the decoded body (it raises when the body cannot be
\* decoded)
Text(resp) == resp.body

\* the result of an evaluation: the verdict returned, or raised = TRUE when an
\* exception left check_response instead; ran lists the steps executed
Returned(det, verdict, ran) ==
    [det |-> det, raised |-> FALSE, valid |-> verdict.valid, reason |-> verdict.reason,
     ran |-> ran]

Raised(det, ran) ==
    [det |-> det, raised |-> TRUE, valid |-> FALSE, reason |-> NoReason, ran |-> ran]

NoOutcome == [det |-> "none", raised |-> FALSE, valid |-> FALSE, reason |-> NoReason,
              ran |-> <<>>]

SuspiciousStatuses == {203, 204}

\* a variant of SfdStages that looks at the headers before the status
SfdStagesHeadersFirst(self) ==
    << "headers", "status", "suspicious_status", "content_type", "redirects", "decode",
       "content_length", "bot_indicators", "required_markers" >>
    \o (IF self.check_js_rendering
        THEN <<"js_placeholders", "content_density", "embedded_data">> ELSE <<>>)

\* a variant of SfdStages that scans for bot keywords before it checks the length
SfdStagesKeywordsFirst(self) ==
    << "status", "suspicious_status", "headers", "content_type", "redirects", "decode",
       "bot_indicators", "content_length", "required_markers" >>
    \o (IF self.check_js_rendering
        THEN <<"js_placeholders", "content_density", "embedded_data">> ELSE <<>>)

\* a variant of SfdStages that reads the body before any other step
SfdStagesDecodeFirst(self) ==
    << "decode", "status", "suspicious_status", "headers", "content_type", "redirects",
       "content_length", "bot_indicators", "required_markers" >>
    \o (IF self.check_js_rendering
        THEN <<"js_placeholders", "content_density", "embedded_data">> ELSE <<>>)

\* the steps of ScrapingFailureDetector.check_response, in the order of the code
SfdStages(self) ==
    << "status", "suspicious_status", "headers", "content_type", "redirects", "decode",
       "content_length", "bot_indicators", "required_markers" >>
    \o (IF self.check_js_rendering
        THEN <<"js_placeholders", "content_density", "embedded_data">> ELSE <<>>)

\* the verdict of one step
SfdStage(name, self, resp) ==
    CASE name = "status" ->
           IF ~IsSuccess(resp.status)
           THEN Fail(Reason("HTTP error", resp.status, 0, "", <<>>)) ELSE Pass
      [] name = "suspicious_status" ->
           IF resp.status \in SuspiciousStatuses
           THEN Fail(Reason("Suspicious status code", resp.status, 0, "", <<>>)) ELSE Pass
      [] name = "headers" -> _check_headers(self, resp)
      [] name = "content_type" -> _check_content_type(self, resp)
      [] name = "redirects" -> _check_redirects(self, resp)
      [] name = "decode" ->
           IF resp.decodable THEN Pass
           ELSE Fail(Reason("Failed to decode response", 0, 0, "", <<>>))
      [] name = "content_length" -> _check_content_length(self, Text(resp))
      [] name = "bot_indicators" -> _check_bot_indicators(self, Text(resp))
      [] name = "required_markers" -> _check_required_markers(self, Text(resp))
      [] name = "js_placeholders" -> _check_js_placeholders(self, Text(resp))
      [] name = "content_density" -> _check_content_density(self, Text(resp))
      [] name = "embedded_data" -> _check_embedded_data(self, Text(resp))

\* run the steps in order and return at the first that fails
RunStages(det, stages, verdicts) ==
    LET failing == {i \in 1..Len(stages) : ~verdicts[i].valid}
    IN  IF failing = {} THEN Returned(det, Pass, stages)
        ELSE Returned(det, verdicts[Min(failing)], SubSeq(stages, 1, Min(failing)))

\* ScrapingFailureDetector.check_response
Sfd_check_response(self, resp) ==
    LET stages == SfdStages(self)
    IN  RunStages("sfd", stages, [i \in 1..Len(stages) |-> SfdStage(stages[i], self, resp)])

\* the steps of DynamicContentDetector.check_response after the body is read
\* a variant of DcdStages that runs every stage, whatever the options
DcdStagesUngated(self) ==
    <<"lazy_loading", "pagination", "item_count", "patterns", "noscript", "structured_data">>

DcdStages(self) ==
    (IF self.check_lazy_loading THEN <<"lazy_loading">> ELSE <<>>)
    \o (IF self.check_pagination THEN <<"pagination">> ELSE <<>>)
    \o (IF TruthyInt(self.min_item_count) THEN <<"item_count">> ELSE <<>>)
    \o (IF self.expected_patterns # <<>> THEN <<"patterns">> ELSE <<>>)
    \o <<"noscript", "structured_data">>

DcdStage(name, self, html) ==
    CASE name = "lazy_loading" -> _check_lazy_loading(self, html)
      [] name = "pagination" -> _check_pagination(self, html)
      [] name = "item_count" -> _check_item_count(self, html, self.min_item_count.val)
      [] name = "patterns" -> _validate_patterns(self, html)
      [] name = "noscript" -> _check_noscript(self, html)
      [] name = "structured_data" -> _check_structured_data(self, html)

\* DynamicContentDetector.check_response: the body is read first, outside any
\* try, so an exception of text() leaves check_response
Dcd_check_response(self, resp) ==
    IF ~resp.decodable THEN Raised("dcd", <<"decode">>)
    ELSE LET stages == DcdStages(self)
             run == RunStages("dcd", stages,
                              [i \in 1..Len(stages) |-> DcdStage(stages[i], self, Text(resp))])
         IN  [run EXCEPT !.ran = <<"decode">> \o @]

-----------------------------------------------------------------------------
(* Inputs                                                                  *)

\* visible text
T(v, n) == Chunk("text", v, n, 1, 0)

\* n characters of plain text holding nothing any check looks for
Lorem(n) == T("lorem", n)

\* a whitespace run
Ws(n) == Chunk("ws", " ", n, 1, 0)

\* rep copies of a tag
Tag(v, n, rep) == Chunk("tag", v, n, rep, 0)

\* rep script blocks of n characters each
Script(v, n, rep) == Chunk("script", v, n, rep, 0)

\* a style block with n characters of CSS
Style(n) == Chunk("style", "css", n, 1, 0)

\* a noscript block with the inner text v of n characters
Noscript(v, n) == Chunk("noscript", v, n, 1, 0)

\* a JSON-LD script block with the payload v
JsonLd(v) == Chunk("jsonld", v, 120, 1, 0)

\* rep copies of the price $0.00
ZeroPrices(rep) == Chunk("price", "$0.00", 5, rep, 0)

\* rep different prices
Prices(rep) == Chunk("price", "$", 5, rep, 1)

Header(name, value) == [name |-> name, value |-> value]

Hop(url, status) == [url |-> url, status |-> status]

Response(status, headers, history, body) ==
    [status |-> status, headers |-> headers, history |-> history, body |-> body,
     decodable |-> TRUE]

\* a response whose body cannot be decoded as text
Undecodable(status, headers, history) ==
    [status |-> status, headers |-> headers, history |-> history, body |-> <<>>,
     decodable |-> FALSE]

HtmlHeaders == <<Header("content-type", "text/html; charset=utf-8")>>

Statuses == {199, 200, 203, 204, 299, 300, 404}

HeaderSets ==
    { <<>>,
      HtmlHeaders,
      HtmlHeaders \o <<Header("cf-ray", "8a1b2c3d")>>,
      HtmlHeaders \o <<Header("server", "CloudFlare")>>,
      <<Header("content-type", "application/json")>> }

Histories ==
    { <<>>,
      <<Hop("a", 301)>>,
      <<Hop("a", 301), Hop("b", 302), Hop("a", 301)>> }

ProductJson == "{\"@type\":\"Product\",\"name\":\"X\",\"offers\":{\"price\":\"9.99\"}}"

NoPriceJson == "{\"@type\":\"Product\",\"name\":\"X\",\"offers\":{}}"

ProductCard(rep) == Tag("<div class=\"product-card\" data-product-id=\"1\">", 46, rep)

Bodies ==
    { <<>>,
      <<Lorem(600)>>,
      <<Lorem(300)>>,
      <<Lorem(600), T("Captcha", 7)>>,
      <<Lorem(600), T("the price", 9)>>,
      <<Tag("<body>", 6, 1), Tag("<div id=\"root\"></div>", 21, 1), Script("js", 1200, 1)>>,
      <<Script("js", 1200, 1), Lorem(20)>>,
      <<Lorem(100), Script("__NEXT_DATA__", 450, 1), T("the price", 9)>>,
      <<Lorem(600), Tag("<img data-src=\"a.jpg\">", 22, 4)>>,
      <<Lorem(600), T("Showing 12 of 150", 17)>>,
      <<Lorem(600), ProductCard(3)>>,
      <<Lorem(600), ProductCard(5), ZeroPrices(3), Prices(2)>>,
      <<Lorem(600), ProductCard(5), Prices(4), ZeroPrices(3)>>,
      <<Lorem(600), Noscript("Please Enable JavaScript", 24)>>,
      <<Lorem(600), JsonLd(NoPriceJson)>>,
      <<Lorem(600), T("the price", 9), ProductCard(5), Prices(6), JsonLd(ProductJson)>> }

Responses ==
    {Response(st, h, hi, b) : st \in Statuses, h \in HeaderSets, hi \in Histories, b \in Bodies}
    \cup {Undecodable(st, h, hi) : st \in Statuses, h \in HeaderSets, hi \in Histories}

\* the responses a later fetch returns: one per way an evaluation can end
Refetched ==
    { Response(200, HtmlHeaders, <<>>, <<Lorem(600)>>),
      Response(404, HtmlHeaders, <<>>, <<Lorem(600)>>),
      Response(200, HtmlHeaders, <<>>, <<Lorem(600), T("Captcha", 7)>>),
      Response(200, HtmlHeaders, <<>>, <<Lorem(600), Tag("<img data-src=\"a.jpg\">", 22, 4)>>),
      Undecodable(200, HtmlHeaders, <<>>),
      Undecodable(204, <<>>, <<Hop("a", 301)>>) }

Markers(list) == [some |-> TRUE, val |-> list]

SfdArgs ==
    { SfdDefaults,
      [SfdDefaults EXCEPT !.check_js_rendering = TRUE, !.min_content_length = 100],
      [SfdDefaults EXCEPT !.expected_content_type = "", !.min_content_length = 0,
                          !.required_markers = Markers(<<"price">>),
                          !.check_js_rendering = TRUE],
      [SfdDefaults EXCEPT !.max_content_length = SomeInt(1000),
                          !.required_markers = Markers(<<"price", "cart">>)] }

Pattern(name, pattern, min_count) == [name |-> name, pattern |-> pattern, min_count |-> min_count]

PricePattern == "\\$\\d+\\.\\d{2}"

DcdArgs ==
    { DcdDefaults,
      [DcdDefaults EXCEPT !.min_item_count = SomeInt(4)],
      [DcdDefaults EXCEPT !.check_lazy_loading = FALSE, !.check_pagination = FALSE,
                          !.expected_patterns = <<Pattern("prices", PricePattern, SomeInt(5))>>],
      [DcdDefaults EXCEPT !.check_lazy_loading = FALSE, !.min_item_count = SomeInt(4),
                          !.expected_patterns = <<Pattern("prices", PricePattern, NoneInt)>>] }

-----------------------------------------------------------------------------
(* The state machine: a caller that fetches responses, constructs the      *)
(* detectors and evaluates the response in hand with either of them.       *)
(* outcome is the result of the last evaluation of the response in hand    *)
(* by the detectors in hand.                                               *)

NoPrior == [outcome |-> NoOutcome, response |-> Undecodable(0, <<>>, <<>>),
            sfd |-> ScrapingFailureDetector(SfdDefaults),
            dcd |-> DynamicContentDetector(DcdDefaults)]

Init ==
    /\ response \in Responses
    /\ sfd \in {ScrapingFailureDetector(a) : a \in SfdArgs}
    /\ dcd \in {DynamicContentDetector(a) : a \in DcdArgs}
    /\ outcome = NoOutcome
    /\ prior = NoPrior

\* response = await client.get(url)
Fetch ==
    /\ response' \in Refetched
    /\ outcome' = NoOutcome
    /\ UNCHANGED <<sfd, dcd, prior>>

\* detector = ScrapingFailureDetector(...)
NewScrapingFailureDetector ==
    /\ \E a \in SfdArgs : sfd' = ScrapingFailureDetector(a)
    /\ outcome' = NoOutcome
    /\ UNCHANGED <<response, dcd, prior>>

\* detector = DynamicContentDetector(...)
NewDynamicContentDetector ==
    /\ \E a \in DcdArgs : dcd' = DynamicContentDetector(a)
    /\ outcome' = NoOutcome
    /\ UNCHANGED <<response, sfd, prior>>

\* a variant of SfdEvaluate in which the evaluation uses up the detector's
\* required markers
SfdEvaluateConsuming ==
    /\ outcome' = Sfd_check_response(sfd, response)
    /\ sfd' = [sfd EXCEPT !.required_markers = <<>>]
    /\ UNCHANGED <<response, dcd, prior>>

\* is_valid, error = await detector.check_response(response)
SfdEvaluate ==
    /\ outcome' = Sfd_check_response(sfd, response)
    /\ UNCHANGED <<response, sfd, dcd, prior>>

DcdEvaluate ==
    /\ outcome' = Dcd_check_response(dcd, response)
    /\ UNCHANGED <<response, sfd, dcd, prior>>

Next ==
    \/ Fetch
    \/ NewScrapingFailureDetector
    \/ NewDynamicContentDetector
    \/ SfdEvaluate
    \/ DcdEvaluate

Spec == Init /\ [][Next]_vars

\* first = await detector.check_response(response): the caller keeps the
\* result of an evaluation, with the response and the detectors it was for
Remember ==
    /\ outcome.det # "none"
    /\ prior = NoPrior
    /\ prior' = [outcome |-> outcome, response |-> response, sfd |-> sfd, dcd |-> dcd]
    /\ UNCHANGED <<response, sfd, dcd, outcome>>

InitIdem ==
    /\ response \in Refetched
    /\ sfd \in {ScrapingFailureDetector(a) : a \in SfdArgs}
    /\ dcd \in {DynamicContentDetector(a) : a \in DcdArgs}
    /\ outcome = NoOutcome
    /\ prior = NoPrior

NextIdem ==
    \/ Fetch
    \/ NewScrapingFailureDetector
    \/ NewDynamicContentDetector
    \/ SfdEvaluate
    \/ DcdEvaluate
    \/ Remember

\* evaluations of a few responses, any number of times and in any order, one
\* earlier result being kept for comparison
SpecIdem == InitIdem /\ [][NextIdem]_vars

-----------------------------------------------------------------------------
(* The checks one at a time: a caller that applies one check to an input   *)
(* drawn from a family built for it                                        *)

\* the sequences of at most n elements of S
SeqsUpTo(S, n) == UNION {[1..k -> S] : k \in 0..n}

\* the result of one check, applied on its own
Applied(name, verdict) == Returned(name, verdict, <<name>>)

\* a detector that lets every body through to the later checks
Lenient == [SfdDefaults EXCEPT !.min_content_length = 0, !.expected_content_type = ""]

\* the most pieces of a body of the keyword family
MaxBotChunks == 2

\* the most headers of a response of the keyword family
MaxBotHeaders == 2

BotAtoms ==
    { Lorem(60), T("the price", 9), T("captcha", 7), T("Captcha", 7), T("CAPTCHA", 7),
      T("reCAPTCHA", 9) }

BotHeaders ==
    { Header("cf-ray", "8a1b2c3d"), Header("cf-ray", ""), Header("x-datadome-cid", "abc"),
      Header("server", "CloudFlare"), Header("server", "AkamaiGHost"),
      Header("server", "nginx") }

InitBot ==
    /\ response \in {Response(200, h, <<>>, b) :
                       h \in SeqsUpTo(BotHeaders, MaxBotHeaders),
                       b \in SeqsUpTo(BotAtoms, MaxBotChunks)}
    /\ sfd = ScrapingFailureDetector(Lenient)
    /\ dcd = DynamicContentDetector(DcdDefaults)
    /\ outcome = NoOutcome
    /\ prior = NoPrior

\* detector._check_headers(response)
CallCheckHeaders ==
    /\ outcome' = Applied("_check_headers", _check_headers(sfd, response))
    /\ UNCHANGED <<response, sfd, dcd, prior>>

\* detector._check_bot_indicators(html)
CallCheckBotIndicators ==
    /\ response.decodable
    /\ outcome' = Applied("_check_bot_indicators", _check_bot_indicators(sfd, Text(response)))
    /\ UNCHANGED <<response, sfd, dcd, prior>>

NextBot ==
    \/ CallCheckHeaders
    \/ CallCheckBotIndicators
    \/ SfdEvaluate

SpecBot == InitBot /\ [][NextBot]_vars

\* the most hops of a redirect history
MaxHops == 3

RedirectUrls == {"a", "b", "http://x/Verify"}

HopStatuses == {301, 403}

InitRedirects ==
    /\ response \in {Response(200, HtmlHeaders, hi, <<Lorem(600)>>) :
                       hi \in SeqsUpTo({Hop(u, st) : u \in RedirectUrls, st \in HopStatuses},
                                       MaxHops)}
    /\ sfd = ScrapingFailureDetector(SfdDefaults)
    /\ dcd = DynamicContentDetector(DcdDefaults)
    /\ outcome = NoOutcome
    /\ prior = NoPrior

\* detector._check_redirects(response)
CallCheckRedirects ==
    /\ outcome' = Applied("_check_redirects", _check_redirects(sfd, response))
    /\ UNCHANGED <<response, sfd, dcd, prior>>

NextRedirects ==
    \/ CallCheckRedirects
    \/ SfdEvaluate

SpecRedirects == InitRedirects /\ [][NextRedirects]_vars

\* the most copies of the one repeated price
MaxSame == 20

\* the most different prices
MaxDistinct == 25

\* same copies of $0.00, then distinct different prices
PriceBody(same, distinct) ==
    (IF same > 0 THEN <<ZeroPrices(same)>> ELSE <<>>)
    \o (IF distinct > 0 THEN <<Prices(distinct)>> ELSE <<>>)

PatternArgs ==
    { [DcdDefaults EXCEPT !.expected_patterns = <<Pattern("prices", PricePattern, SomeInt(20))>>],
      [DcdDefaults EXCEPT !.expected_patterns = <<Pattern("prices", PricePattern, SomeInt(5))>>],
      [DcdDefaults EXCEPT !.expected_patterns = <<Pattern("prices", PricePattern, NoneInt)>>],
      [DcdDefaults EXCEPT !.expected_patterns =
          <<Pattern("unset", "", SomeInt(3)), Pattern("prices", PricePattern, SomeInt(2))>>] }

InitPatterns ==
    /\ response \in {Response(200, HtmlHeaders, <<>>, PriceBody(m, d)) :
                       m \in 0..MaxSame, d \in 0..MaxDistinct}
    /\ sfd = ScrapingFailureDetector(SfdDefaults)
    /\ dcd \in {DynamicContentDetector(a) : a \in PatternArgs}
    /\ outcome = NoOutcome
    /\ prior = NoPrior

\* detector._validate_patterns(html)
CallValidatePatterns ==
    /\ response.decodable
    /\ outcome' = Applied("_validate_patterns", _validate_patterns(dcd, Text(response)))
    /\ UNCHANGED <<response, sfd, dcd, prior>>

NextPatterns ==
    \/ CallValidatePatterns
    \/ DcdEvaluate

SpecPatterns == InitPatterns /\ [][NextPatterns]_vars

\* the most script blocks of a body of the density family
MaxScripts == 17

TextSizes == {0, 20, 41, 42, 50, 150, 200}

WsSizes == {0, 30}

ScriptSizes == {59, 60, 1000}

\* text characters of text, a whitespace run, a few words, then the scripts
DensityBody(text, ws, size, scripts) ==
    (IF text > 0 THEN <<Lorem(text)>> ELSE <<>>)
    \o (IF ws > 0 THEN <<Ws(ws)>> ELSE <<>>)
    \o <<T("the price", 9)>>
    \o (IF scripts > 0 THEN <<Script("js", size, scripts)>> ELSE <<>>)

DensityArgs ==
    { Lenient,
      [Lenient EXCEPT !.check_js_rendering = TRUE],
      [Lenient EXCEPT !.check_js_rendering = TRUE, !.min_text_ratio = 100] }

InitDensity ==
    /\ response \in {Response(200, HtmlHeaders, <<>>, DensityBody(t, w, sz, k)) :
                       t \in TextSizes, w \in WsSizes, sz \in ScriptSizes, k \in 0..MaxScripts}
    /\ sfd \in {ScrapingFailureDetector(a) : a \in DensityArgs}
    /\ dcd = DynamicContentDetector(DcdDefaults)
    /\ outcome = NoOutcome
    /\ prior = NoPrior

\* detector._check_content_density(html), which check_response calls only
\* when check_js_rendering is set
CallCheckContentDensity ==
    /\ response.decodable
    /\ sfd.check_js_rendering
    /\ outcome' = Applied("_check_content_density", _check_content_density(sfd, Text(response)))
    /\ UNCHANGED <<response, sfd, dcd, prior>>

NextDensity ==
    \/ CallCheckContentDensity
    \/ SfdEvaluate

SpecDensity == InitDensity /\ [][NextDensity]_vars

\* the most JSON-LD blocks of a body of the structured-data family
MaxPayloads == 2

InitStructured ==
    /\ response \in {Response(200, HtmlHeaders, <<>>, b) :
                       b \in SeqsUpTo({JsonLd(p) : p \in DOMAIN JsonTable}, MaxPayloads)}
    /\ sfd = ScrapingFailureDetector(SfdDefaults)
    /\ dcd = DynamicContentDetector(DcdDefaults)
    /\ outcome = NoOutcome
    /\ prior = NoPrior

\* detector._check_structured_data(html)
CallCheckStructuredData ==
    /\ response.decodable
    /\ outcome' = Applied("_check_structured_data", _check_structured_data(dcd, Text(response)))
    /\ UNCHANGED <<response, sfd, dcd, prior>>

NextStructured ==
    \/ CallCheckStructuredData
    \/ DcdEvaluate

SpecStructured == InitStructured /\ [][NextStructured]_vars

\* the most pieces of a body of the keyword-order family
MaxScanChunks == 3

\* the most headers of a response of the header-table family
MaxTableHeaders == 2

\* responses for the checks of ScrapingFailureDetector taken one at a time:
\* bodies on both sides of each length bound, bodies that hold several
\* keywords in several orders, and headers of and beside the table
InitSfdChecks ==
    LET lengths == {<<>>} \cup {<<Lorem(n)>> : n \in {1, 499, 500, 501, 999, 1000, 1001}}
        texts == { Lorem(60), Lorem(30), T("captcha", 7), T("reCAPTCHA", 9),
                   T("Blocked by Cloudflare", 21) }
        table == { Header("cf-ray", "8a1b2c3d"), Header("cf-ray", ""),
                   Header("cf-mitigated", "challenge"), Header("server", "nginx"),
                   Header("server", "CloudFlare"), Header("server", "CloudFlare via Akamai") }
    IN  /\ response \in
              {Response(200, HtmlHeaders, <<>>, b) : b \in lengths}
              \cup {Response(200, HtmlHeaders, <<>>, b) : b \in SeqsUpTo(texts, MaxScanChunks)}
              \cup {Response(200, h, <<>>, <<Lorem(600)>>) : h \in SeqsUpTo(table, MaxTableHeaders)}
        /\ sfd \in {ScrapingFailureDetector(
                      [SfdDefaults EXCEPT !.min_content_length = lo, !.max_content_length = hi,
                                          !.expected_content_type = ""]) :
                      lo \in {-1, 0, 500}, hi \in {NoneInt, SomeInt(0), SomeInt(1000)}}
        /\ dcd = DynamicContentDetector(DcdDefaults)
        /\ outcome = NoOutcome
        /\ prior = NoPrior

\* detector._check_content_length(html)
CallCheckContentLength ==
    /\ response.decodable
    /\ outcome' = Applied("_check_content_length", _check_content_length(sfd, Text(response)))
    /\ UNCHANGED <<response, sfd, dcd, prior>>

SpecSfdChecks ==
    InitSfdChecks
    /\ [][\/ CallCheckContentLength
          \/ CallCheckHeaders
          \/ CallCheckBotIndicators
          \/ SfdEvaluate]_vars

\* the most pieces of a body of the noscript family
MaxNoscriptChunks == 3

\* the most pieces of a body of the pagination family
MaxPageChunks == 3

\* the most copies of one lazy-load indicator in a body
MaxLazyCount == 5

\* the most item containers of one kind in a body
MaxItems == 3

\* bodies for the checks of DynamicContentDetector, one family per check:
\* noscript blocks around the 1000-character limit and a JS-required message
\* inside and outside them; four lazy-load indicators 2 to MaxLazyCount times
\* each; the page texts of _check_pagination; three kinds of item containers
InitDcdChecks ==
    LET noscripts == { Lorem(600), Noscript("lorem", 300), Noscript("lorem", 500),
                       Noscript("lorem", 1000), Noscript("lorem", 1001),
                       Noscript("Please Enable JavaScript", 24),
                       T("Please Enable JavaScript", 24) }
        lazy == { << Lorem(600), Tag("<img data-src=\"a.jpg\">", 22, a),
                     Tag("<div class=\"skeleton\">", 22, b), ZeroPrices(c),
                     Chunk("text", "N/A", 3, d, 0) >> :
                    a \in 2..MaxLazyCount, b \in 2..MaxLazyCount,
                    c \in 2..MaxLazyCount, d \in 2..MaxLazyCount }
        pages == { Lorem(600), Tag("<button class=\"btn load-more\">", 30, 1),
                   Tag("<button class=\"btn btn-primary btn-lg pagination-load-more js-more\">",
                       68, 1),
                   T("Showing 12 of 150", 17), T("page=1", 6), T("Page 2", 6),
                   T("Next Page", 9), Tag("<div data-infinite-scroll>", 26, 1) }
        items == { <<Lorem(600)>>
                     \o (IF a > 0 THEN <<ProductCard(a)>> ELSE <<>>)
                     \o (IF b > 0 THEN <<Tag("<li class=\"item\">", 17, b)>> ELSE <<>>)
                     \o (IF c > 0 THEN <<Tag("<article>", 9, c)>> ELSE <<>>) :
                     a \in 0..MaxItems, b \in 0..MaxItems, c \in 0..MaxItems }
        counted == {DynamicContentDetector([DcdDefaults EXCEPT !.min_item_count = SomeInt(m)]) :
                      m \in 0..(MaxItems + 1)}
    IN  /\ \/ /\ response \in {Response(200, HtmlHeaders, <<>>, b) :
                                 b \in SeqsUpTo(noscripts, MaxNoscriptChunks)
                                       \cup lazy \cup SeqsUpTo(pages, MaxPageChunks)}
              /\ dcd = DynamicContentDetector(DcdDefaults)
           \/ /\ response \in {Response(200, HtmlHeaders, <<>>, b) : b \in items}
              /\ dcd \in counted
        /\ sfd = ScrapingFailureDetector(SfdDefaults)
        /\ outcome = NoOutcome
        /\ prior = NoPrior

\* detector._check_noscript(html)
CallCheckNoscript ==
    /\ outcome' = Applied("_check_noscript", _check_noscript(dcd, Text(response)))
    /\ UNCHANGED <<response, sfd, dcd, prior>>

\* detector._check_lazy_loading(html)
CallCheckLazyLoading ==
    /\ outcome' = Applied("_check_lazy_loading", _check_lazy_loading(dcd, Text(response)))
    /\ UNCHANGED <<response, sfd, dcd, prior>>

\* detector._check_pagination(html)
CallCheckPagination ==
    /\ outcome' = Applied("_check_pagination", _check_pagination(dcd, Text(response)))
    /\ UNCHANGED <<response, sfd, dcd, prior>>

\* detector._check_item_count(html, detector.min_item_count)
CallCheckItemCount ==
    /\ dcd.min_item_count.some
    /\ outcome' = Applied("_check_item_count",
                          _check_item_count(dcd, Text(response), dcd.min_item_count.val))
    /\ UNCHANGED <<response, sfd, dcd, prior>>

SpecDcdChecks ==
    InitDcdChecks
    /\ [][\/ CallCheckNoscript
          \/ CallCheckLazyLoading
          \/ CallCheckPagination
          \/ CallCheckItemCount
          \/ DcdEvaluate]_vars

\* bodies that fail any set of the six stages of DynamicContentDetector at
\* once (four lazy images, a 'showing N of M' text, 3 product cards for 4
\* asked, 2 prices for 5 asked, a large noscript block, a product without a
\* price), for every setting of the four options that gate a stage
InitDcdStages ==
    LET opt(on, c) == IF on THEN <<c>> ELSE <<>>
        bodies == { <<Lorem(600)>>
                      \o opt(lazy, Tag("<img data-src=\"a.jpg\">", 22, 4))
                      \o opt(paged, T("Showing 12 of 150", 17))
                      \o <<ProductCard(IF few THEN 3 ELSE 5)>>
                      \o <<Prices(IF cheap THEN 2 ELSE 6)>>
                      \o opt(fallback, Noscript("lorem", 1001))
                      \o opt(schema, JsonLd(NoPriceJson)) :
                      lazy \in BOOLEAN, paged \in BOOLEAN, few \in BOOLEAN,
                      cheap \in BOOLEAN, fallback \in BOOLEAN, schema \in BOOLEAN }
        args == { [min_item_count |-> m, expected_patterns |-> e,
                   check_lazy_loading |-> l, check_pagination |-> g] :
                    m \in {NoneInt, SomeInt(4)},
                    e \in {<<>>, <<Pattern("prices", PricePattern, SomeInt(5))>>},
                    l \in BOOLEAN, g \in BOOLEAN }
    IN  /\ response \in {Response(200, HtmlHeaders, <<>>, b) : b \in bodies}
        /\ dcd \in {DynamicContentDetector(a) : a \in args}
        /\ sfd = ScrapingFailureDetector(SfdDefaults)
        /\ outcome = NoOutcome
        /\ prior = NoPrior

SpecDcdStages == InitDcdStages /\ [][DcdEvaluate \/ CallCheckNoscript]_vars

\* the most script blocks of a body of the framework family
MaxShellScripts == 2

\* pages of a JS framework: nothing or one framework element, then none to
\* 5000 characters of rendered text, then the scripts
InitPlaceholders ==
    LET frames == { <<>>, <<Tag("<div id=\"root\">", 15, 1)>>,
                    <<Tag("<div id=\"root\"></div>", 21, 1)>>,
                    <<Tag("<div class=\"spinner\">", 21, 1)>> }
        texts == { <<>>, <<Lorem(20)>>, <<Lorem(499)>>, <<Lorem(600)>>, <<Lorem(5000)>> }
        scripts == { IF k > 0 THEN <<Script("js", 60, k)>> ELSE <<>> : k \in 0..MaxShellScripts }
    IN  /\ response \in {Response(200, HtmlHeaders, <<>>, f \o t \o sc) :
                           f \in frames, t \in texts, sc \in scripts}
        /\ sfd \in {ScrapingFailureDetector([Lenient EXCEPT !.check_js_rendering = on]) :
                      on \in BOOLEAN}
        /\ dcd = DynamicContentDetector(DcdDefaults)
        /\ outcome = NoOutcome
        /\ prior = NoPrior

\* detector._check_js_placeholders(html), which check_response calls only
\* when check_js_rendering is set
CallCheckJsPlaceholders ==
    /\ response.decodable
    /\ sfd.check_js_rendering
    /\ outcome' = Applied("_check_js_placeholders", _check_js_placeholders(sfd, Text(response)))
    /\ UNCHANGED <<response, sfd, dcd, prior>>

SpecPlaceholders == InitPlaceholders /\ [][CallCheckJsPlaceholders \/ SfdEvaluate]_vars

-----------------------------------------------------------------------------
(* Properties                                                              *)

\* a verdict is (True, None) or (False, a non-empty reason)
WellFormed(v) ==
    /\ v.valid <=> ~v.reason.some
    /\ v.reason.some => v.reason.msg # ""

\* C1: a response whose status is outside 200..299, or is 203 or 204, is
\* judged invalid by ScrapingFailureDetector.check_response with the reason
\* 'HTTP error: <code>' or 'Suspicious status code: <code>', whatever its
\* headers, redirect history and body and whatever the configuration
C1_TransportFailure ==
    (outcome.det = "sfd"
       /\ (response.status < 200 \/ response.status > 299 \/ response.status \in {203, 204}))
    => /\ ~outcome.raised /\ ~outcome.valid
       /\ outcome.reason.num = response.status
       /\ outcome.reason.msg =
            (IF response.status < 200 \/ response.status > 299
             THEN "HTTP error" ELSE "Suspicious status code")

\* a 204 whose headers, redirects and body would each fail a later check
C1_Witness ==
    /\ outcome.det = "sfd"
    /\ response.status = 204
    /\ HeadersGet(response.headers, "cf-ray").some
    /\ Len(response.history) = 3
    /\ ~response.decodable
    /\ outcome.reason.msg = "Suspicious status code"

\* the order of the checks of ScrapingFailureDetector.check_response
C2_SfdOrder(self) ==
    << "status", "suspicious_status", "headers", "content_type", "redirects", "decode",
       "content_length", "bot_indicators", "required_markers" >>
    \o (IF self.check_js_rendering
        THEN <<"js_placeholders", "content_density", "embedded_data">> ELSE <<>>)

\* the order of the checks of DynamicContentDetector.check_response
C2_DcdOrder(self) ==
    (IF self.check_lazy_loading THEN <<"lazy_loading">> ELSE <<>>)
    \o (IF self.check_pagination THEN <<"pagination">> ELSE <<>>)
    \o (IF self.min_item_count.some /\ self.min_item_count.val # 0
        THEN <<"item_count">> ELSE <<>>)
    \o (IF Len(self.expected_patterns) > 0 THEN <<"patterns">> ELSE <<>>)
    \o <<"noscript", "structured_data">>

\* the verdict o is that of the first check of order that fails, the checks
\* after it were not run, and o is valid exactly when every check passes;
\* verdicts[k] is the verdict of the check order[k] on its own, pre lists the
\* steps run before the first check of order
C2_FirstFailure(o, order, verdicts, pre) ==
    /\ ~o.raised
    /\ \A k \in 1..Len(order) :
         ((\A j \in 1..(k - 1) : verdicts[j].valid) /\ ~verdicts[k].valid)
         => /\ ~o.valid
            /\ o.reason = verdicts[k].reason
            /\ o.ran = pre \o SubSeq(order, 1, k)
    /\ o.valid <=> \A k \in 1..Len(order) : verdicts[k].valid
    /\ o.valid => o.reason = NoReason /\ o.ran = pre \o order

\* C2 (as amended): each detector runs its own checks in a fixed order --
\* ScrapingFailureDetector: status, suspicious status, headers, content type,
\* redirects, decoding of the body, content length, bot keywords, required
\* markers, then if check_js_rendering placeholders, content density,
\* embedded data; DynamicContentDetector: decoding of the body (a failure
\* is raised), then each if enabled lazy loading, pagination, item count,
\* patterns, then noscript, structured data -- and a returned verdict is
\* invalid with exactly the reason of the first failing check of that
\* detector, valid exactly when all its enabled checks pass
C2_FirstFailurePerDetector ==
    /\ outcome.det = "sfd" =>
         LET order == C2_SfdOrder(sfd)
         IN  C2_FirstFailure(outcome, order,
                             [k \in 1..Len(order) |-> SfdStage(order[k], sfd, response)], <<>>)
    /\ outcome.det = "dcd" =>
         IF ~response.decodable THEN outcome.raised /\ outcome.ran = <<"decode">>
         ELSE LET order == C2_DcdOrder(dcd)
              IN  C2_FirstFailure(outcome, order,
                                  [k \in 1..Len(order) |-> DcdStage(order[k], dcd, response.body)],
                                  <<"decode">>)

\* the header check decides, and the keyword scan, never run, would fail too
C2_Witness ==
    /\ outcome.det = "sfd"
    /\ outcome.reason.msg = "Protection detected"
    /\ "bot_indicators" \notin Range(outcome.ran)
    /\ response.decodable
    /\ ~_check_bot_indicators(sfd, response.body).valid

\* the checks of the single pipeline of the claim that are enabled, in its order
C2_ClaimedOrder ==
    << "status", "suspicious_status", "headers", "content_type", "redirects",
       "content_length", "bot_indicators", "required_markers" >>
    \o C2_DcdOrder(dcd)
    \o (IF sfd.check_js_rendering
        THEN <<"js_placeholders", "content_density", "embedded_data">> ELSE <<>>)

\* the verdict of one check of the single pipeline
C2_ClaimedStage(name) ==
    IF name \in Range(C2_DcdOrder(dcd)) THEN DcdStage(name, dcd, response.body)
    ELSE SfdStage(name, sfd, response)

\* C2 (as stated): one evaluation runs the seventeen checks of both detectors
\* as one pipeline; its verdict is invalid with the reason of the first of
\* them that fails, and valid exactly when every enabled one passes
C2_SinglePipeline ==
    (outcome.det # "none" /\ response.decodable)
    => /\ ~outcome.raised
       /\ outcome.valid <=>
            \A k \in 1..Len(C2_ClaimedOrder) : C2_ClaimedStage(C2_ClaimedOrder[k]).valid
       /\ \A k \in 1..Len(C2_ClaimedOrder) :
            ((\A j \in 1..(k - 1) : C2_ClaimedStage(C2_ClaimedOrder[j]).valid)
               /\ ~C2_ClaimedStage(C2_ClaimedOrder[k]).valid)
            => outcome.reason = C2_ClaimedStage(C2_ClaimedOrder[k]).reason

\* the result kept is of the detector, configuration and response in hand
C3_SameInputs ==
    /\ prior.outcome.det = outcome.det
    /\ outcome.det # "none"
    /\ prior.response = response
    /\ outcome.det = "sfd" => prior.sfd = sfd
    /\ outcome.det = "dcd" => prior.dcd = dcd

SfdAllStages ==
    { "status", "suspicious_status", "headers", "content_type", "redirects", "decode",
      "content_length", "bot_indicators", "required_markers", "js_placeholders",
      "content_density", "embedded_data" }

DcdAllStages ==
    {"lazy_loading", "pagination", "item_count", "patterns", "noscript", "structured_data"}

\* C4: every verdict check_response returns, and the verdict of every single
\* check of both detectors on the response in hand, is (valid, no reason) or
\* (invalid, a non-empty reason)
C4_VerdictShape ==
    /\ (outcome.det # "none" /\ ~outcome.raised)
         => WellFormed([valid |-> outcome.valid, reason |-> outcome.reason])
    /\ \A name \in SfdAllStages : WellFormed(SfdStage(name, sfd, response))
    /\ response.decodable
         => \A name \in DcdAllStages : WellFormed(DcdStage(name, dcd, response.body))

\* an invalid verdict of DynamicContentDetector with its reason, on a response
\* that ScrapingFailureDetector's status check fails as well
C4_Witness ==
    /\ outcome.det = "dcd" /\ ~outcome.raised
    /\ ~outcome.valid /\ outcome.reason.some
    /\ outcome.reason.msg = "Product schema missing price"
    /\ ~SfdStage("status", sfd, response).valid

\* the texts of the vocabulary that spell captcha in some letter case
C5_CaptchaTexts == {"captcha", "Captcha", "CAPTCHA", "reCAPTCHA"}

\* the texts of the vocabulary that hold no keyword of BOT_INDICATORS
C5_CleanTexts == {"lorem", "the price"}

C5_HasCaptcha == \E i \in 1..Len(response.body) : response.body[i].v \in C5_CaptchaTexts

C5_NoKeyword ==
    \A i \in 1..Len(response.body) :
       response.body[i].k = "text" /\ response.body[i].v \in C5_CleanTexts

\* no header of the table of SUSPICIOUS_HEADERS is there with a value, and
\* no server header names one of the table's vendors
C5_NoHeaderMatch ==
    \A i \in 1..Len(response.headers) :
       LET h == response.headers[i]
       IN  /\ h.name \in {"cf-ray", "cf-mitigated", "x-datadome-cid", "x-distil-cs"}
                => h.value = ""
           /\ h.name = "server" => h.value \in {"", "nginx"}

C6_Same ==
    SumSeq([i \in 1..Len(response.body) |->
              IF response.body[i].k = "price" /\ response.body[i].var = 0
              THEN response.body[i].rep ELSE 0])

\* the number of matches that are prices found once each
C6_Distinct ==
    SumSeq([i \in 1..Len(response.body) |->
              IF response.body[i].k = "price" /\ response.body[i].var = 1
              THEN response.body[i].rep ELSE 0])

C6_Total == C6_Same + C6_Distinct

\* the entries of expected_patterns that name a pattern
C6_Named == {i \in 1..Len(dcd.expected_patterns) : dcd.expected_patterns[i].pattern # ""}

C6_TooFew(config) ==
    C6_Total < (IF config.min_count.some THEN config.min_count.val ELSE 1)

\* at least 5 matches, all of them the same or one value more than 80% of them
C6_Repeated ==
    /\ C6_Total >= 5
    /\ \/ (C6_Distinct = 0 \/ C6_Total = 1)
       \/ 5 * C6_Same > 4 * C6_Total

\* C6: _validate_patterns fails when a named pattern has fewer matches than
\* its minimum count, and when it has at least 5 matches that are all the
\* same or of which one value is strictly more than 80%; it passes when every
\* named pattern has its minimum count of matches and they are varied
C6_PatternValidation ==
    outcome.det = "_validate_patterns" =>
      /\ (\E i \in C6_Named : C6_TooFew(dcd.expected_patterns[i])) => ~outcome.valid
      /\ (C6_Named # {} /\ C6_Repeated) => ~outcome.valid
      /\ ((\A i \in C6_Named : ~C6_TooFew(dcd.expected_patterns[i])) /\ ~C6_Repeated)
           => outcome.valid
      /\ (C6_Same = 0 /\ C6_Distinct = 25) => outcome.valid

\* twenty times $0.00 where twenty matches are asked for
C6_Witness ==
    /\ outcome.det = "_validate_patterns"
    /\ C6_Same = 20 /\ C6_Distinct = 0
    /\ dcd.expected_patterns = <<Pattern("prices", PricePattern, SomeInt(20))>>
    /\ ~outcome.valid
    /\ outcome.reason.msg = "All have identical value"

\* the length of what is left of the body without its script blocks, style
\* blocks and tags
C7_Visible ==
    SumSeq([i \in 1..Len(response.body) |->
              IF response.body[i].k \in {"text", "ws", "price", "noscript"}
              THEN response.body[i].n * response.body[i].rep ELSE 0])

C7_Scripts ==
    SumSeq([i \in 1..Len(response.body) |->
              IF response.body[i].k \in {"script", "jsonld"} THEN response.body[i].rep ELSE 0])

C7_Low ==
    /\ BodyLen(response.body) > 1000
    /\ C7_Visible * 1000 < sfd.min_text_ratio * BodyLen(response.body)

C7_Heavy ==
    /\ C7_Scripts > 15
    /\ C7_Visible * 1000 < 150 * BodyLen(response.body)

\* C7: with check_js_rendering set, _check_content_density fails every body
\* of more than 1000 characters whose visible text is less than min_text_ratio
\* of it, and every body of more than 15 script tags whose visible text is
\* less than 0.15 of it; with check_js_rendering unset check_response does
\* not run the check and gives no density reason
C7_ContentDensity ==
    /\ (outcome.det = "_check_content_density" /\ (C7_Low \/ C7_Heavy))
         => ~outcome.valid /\ outcome.reason.msg \in {"Low content density", "Heavy JS usage"}
    /\ (outcome.det = "sfd" /\ sfd.check_js_rendering /\ (C7_Low \/ C7_Heavy))
         => ~outcome.valid
    /\ (outcome.det = "sfd" /\ ~sfd.check_js_rendering)
         => /\ "content_density" \notin Range(outcome.ran)
            /\ outcome.reason.msg \notin {"Low content density", "Heavy JS usage", "Empty HTML"}

\* sixteen scripts around a text of more than 5% and less than 15%: only the
\* script count fails the body
C7_Witness ==
    /\ outcome.det = "_check_content_density"
    /\ C7_Heavy /\ ~C7_Low
    /\ ~outcome.valid
    /\ outcome.reason.msg = "Heavy JS usage"

\* C8: _check_structured_data fails whenever some JSON-LD payload of type
\* Product lacks a non-empty name or a non-empty price (offers.price or
\* offers.lowPrice), and whenever some payload of type ItemList has no items
C8_ProductNeedsNameAndPrice ==
    outcome.det = "_check_structured_data" =>
      \A i \in 1..Len(response.body) :
         LET data == JsonLoads(response.body[i].v)
         IN  /\ (data.kind = "dict" /\ data.type = "Product"
                   /\ (~TruthyStr(data.name)
                         \/ (~TruthyStr(data.price) /\ ~TruthyStr(data.lowPrice))))
                  => ~outcome.valid
             /\ (data.kind = "dict" /\ data.type = "ItemList" /\ data.items = 0)
                  => ~outcome.valid

C9_HasLoop ==
    \E i, j \in 1..Len(response.history) :
       i < j /\ response.history[i].url = response.history[j].url

\* C9: a redirect history in which a URL appears more than once makes
\* _check_redirects fail with 'Redirect loop detected', whatever the statuses
\* of the hops and whatever keywords their URLs hold
C9_RedirectLoop ==
    (outcome.det \in {"_check_redirects", "sfd"} /\ C9_HasLoop)
    => /\ ~outcome.valid
       /\ outcome.reason = Reason("Redirect loop detected", 0, 0, "", <<>>)

\* a loop through a hop with a blocking status and a hop with a keyword URL
C9_Witness ==
    /\ outcome.det = "_check_redirects"
    /\ response.history = <<Hop("a", 403), Hop("http://x/Verify", 301), Hop("a", 301)>>
    /\ outcome.reason.msg = "Redirect loop detected"

\* C10: when the body cannot be decoded, an evaluation that reads it returns
\* an invalid verdict with a reason, in either detector; the decode error
\* never leaves check_response
C10_DecodeFailureIsVerdict ==
    (outcome.det # "none" /\ ~response.decodable /\ "decode" \in Range(outcome.ran))
    => (~outcome.raised /\ ~outcome.valid /\ outcome.reason.some)

\* the reasons of the checks an option of the configuration governs
C11_OptionReasons ==
    { "Content too small", "Content too large", "Wrong content-type",
      "Missing required content markers", "Only found", "All have identical value",
      "have same value" }

\* C11 (as stated): a detector constructed with no arguments never fails a
\* response because of the content length bounds, the content type, the
\* required markers, the item count or the expected patterns
C11_AbsentOptionDisables ==
    /\ (outcome.det = "sfd" /\ sfd = ScrapingFailureDetector(SfdDefaults))
         => outcome.reason.msg \notin C11_OptionReasons
    /\ (outcome.det = "dcd" /\ dcd = DynamicContentDetector(DcdDefaults))
         => outcome.reason.msg \notin C11_OptionReasons

\* C11 (as amended): a detector constructed with no arguments never fails a
\* response because of a maximum length, required markers, the item count or
\* expected patterns, and does not run the item count and pattern stages; the
\* minimum length defaults to 500 and the expected content type to text/html,
\* so it fails a response that reaches the length check with a body of fewer
\* than 500 characters as too small, and one that reaches the content-type
\* check with a Content-Type not holding text/html as of the wrong type
C11_DefaultsOfOptions ==
    /\ (outcome.det = "sfd" /\ sfd = ScrapingFailureDetector(SfdDefaults))
         => /\ outcome.reason.msg \notin
                 {"Content too large", "Missing required content markers"}
            /\ outcome.reason.msg = "Content too small"
                 <=> /\ "content_length" \in Range(outcome.ran)
                     /\ BodyLen(response.body) < 500
            /\ outcome.reason.msg = "Content too small" => outcome.reason.num2 = 500
            /\ outcome.reason.msg = "Wrong content-type"
                 <=> /\ "content_type" \in Range(outcome.ran)
                     /\ \A i \in 1..Len(response.headers) :
                          response.headers[i].name = "content-type"
                            => response.headers[i].value # "text/html; charset=utf-8"
    /\ (outcome.det = "dcd" /\ dcd = DynamicContentDetector(DcdDefaults))
         => /\ outcome.reason.msg \notin
                 {"Only found", "All have identical value", "have same value"}
            /\ "item_count" \notin Range(outcome.ran)
            /\ "patterns" \notin Range(outcome.ran)

\* the detector of no arguments finds a body of 300 characters too small
C11_Witness ==
    /\ outcome.det = "sfd"
    /\ sfd = ScrapingFailureDetector(SfdDefaults)
    /\ response.body = <<Lorem(300)>>
    /\ outcome.reason = Reason("Content too small", 300, 500, "", <<>>)

\* C12: _check_content_length passes exactly when the body is not empty and
\* its length is at least min_content_length and, when max_content_length is
\* set, at most max_content_length; an empty body fails whatever the bounds
C12_LengthWithinBounds ==
    outcome.det = "_check_content_length" =>
      /\ outcome.valid <=>
           /\ BodyLen(response.body) # 0
           /\ BodyLen(response.body) >= sfd.min_content_length
           /\ sfd.max_content_length.some
                => BodyLen(response.body) <= sfd.max_content_length.val
      /\ BodyLen(response.body) = 0 => ~outcome.valid

\* C13: _check_redirects reports the first that holds of (a) a repeated URL,
\* (b) a challenge keyword in the URL of any hop, (c) a blocking status 503,
\* 403 or 429 on any hop, (d) more than 5 hops; so a keyword in a later hop
\* is reported before a blocking status of an earlier hop
C13_ConditionOrder ==
    outcome.det = "_check_redirects" =>
      LET history == response.history
          keyword == \E i \in 1..Len(history) : history[i].url = "http://x/Verify"
          blocking == \E i \in 1..Len(history) : history[i].status \in {503, 403, 429}
      IN  IF C9_HasLoop THEN outcome.reason.msg = "Redirect loop detected"
          ELSE IF keyword THEN outcome.reason.msg = "Suspicious redirect"
          ELSE IF blocking THEN outcome.reason.msg = "Blocking status in redirect chain"
          ELSE IF Len(history) > 5 THEN outcome.reason.msg = "Too many redirects"
          ELSE outcome.valid

\* C14 (as the claim states it): _check_headers fails only when, for some
\* entry of SUSPICIOUS_HEADERS, the header is present and its value contains
\* that entry's indicator, letter case aside
C14_FailsOnlyOnIndicator ==
    (outcome.det = "_check_headers" /\ ~outcome.valid) =>
      \E i \in 1..Len(SUSPICIOUS_HEADERS) :
        LET e == SUSPICIOUS_HEADERS[i]
            header_value == HeadersGet(response.headers, e.name)
        IN  /\ header_value.some
            /\ \E j \in 1..Len(e.indicator) :
                 In(Lower(e.indicator[j]), Lower(header_value.val))

\* C14 (amended): an entry whose indicator is one string (cf-ray, cf-mitigated,
\* x-datadome-cid, x-distil-cs) fails whenever its header is present with a
\* non-empty value, whatever the value, and reports the entry's string; the
\* server entry fails only when the value contains a candidate, letter case
\* aside, and reports the first candidate in list order that the value
\* contains; a server value that contains no candidate does not fail
C14_HeaderSignatures ==
    outcome.det = "_check_headers" =>
      LET value(name) == HeadersGet(response.headers, name)
          labels == ("cf-ray" :> "Cloudflare protection") @@
                    ("cf-mitigated" :> "Cloudflare mitigation") @@
                    ("x-datadome-cid" :> "DataDome protection") @@
                    ("x-distil-cs" :> "Distil Networks")
          named == {n \in DOMAIN labels : value(n).some /\ value(n).val # ""}
          server == IF value("server").some THEN value("server").val ELSE ""
          candidate == IF server = "CloudFlare via Akamai" THEN "akamai"
                       ELSE IF server = "CloudFlare" THEN "cloudflare"
                       ELSE ""
      IN  /\ named # {} =>
               /\ ~outcome.valid
               /\ outcome.reason.msg = "Protection detected"
               /\ \E n \in named : outcome.reason.str = labels[n]
          /\ (named = {} /\ candidate # "") =>
               /\ ~outcome.valid
               /\ outcome.reason.msg = "Protection detected via header"
               /\ outcome.reason.str = candidate
               /\ outcome.reason.list = <<"server">>
          /\ (named = {} /\ candidate = "") => outcome.valid

\* a server value that holds two candidates, the later of the list first, is
\* reported by the earlier candidate
C14_Witness ==
    /\ outcome.det = "_check_headers"
    /\ HeadersGet(response.headers, "server") = SomeStr("CloudFlare via Akamai")
    /\ ~outcome.valid
    /\ outcome.reason.str = "akamai"

C15_NoscriptFallback ==
    outcome.det = "_check_noscript" =>
      LET body == response.body
          inside == {i \in 1..Len(body) : body[i].k = "noscript"}
          total == SumSeq([i \in 1..Len(body) |-> IF i \in inside THEN body[i].n ELSE 0])
          outside == \E i \in 1..Len(body) :
                       body[i].k = "text" /\ body[i].v = "Please Enable JavaScript"
      IN  IF total > 1000
          THEN ~outcome.valid /\ outcome.reason.msg = "Large noscript content"
          ELSE IF outside
               THEN /\ ~outcome.valid
                    /\ outcome.reason.msg = "JS-required message in main content"
               ELSE outcome.valid

\* C16 (as the claim states it): _check_lazy_loading fails exactly when some
\* indicator occurs more than 3 times in the body, letter case aside; an
\* indicator that occurs 3 times or fewer is never listed; when more than 3
\* indicators occur more than 3 times each, the reason lists the 3 of them
\* with the highest counts
C16_HighestCounts ==
    outcome.det = "_check_lazy_loading" =>
      LET body == response.body
          atoms == ("<img data-src=\"a.jpg\">" :> "Lazy-load images not loaded") @@
                   ("<div class=\"skeleton\">" :> "Skeleton loading state") @@
                   ("$0.00" :> "Unloaded price") @@
                   ("N/A" :> "Missing data placeholder")
          count(v) == SumSeq([i \in 1..Len(body) |-> IF body[i].v = v THEN body[i].rep ELSE 0])
          over == {v \in DOMAIN atoms : count(v) > 3}
          listed == {outcome.reason.list[i] : i \in 1..Len(outcome.reason.list)}
      IN  /\ outcome.valid <=> over = {}
          /\ ~outcome.valid =>
               /\ outcome.reason.msg = "Unloaded content"
               /\ listed \subseteq {<<atoms[v], count(v)>> : v \in over}
               /\ Len(outcome.reason.list) = (IF Cardinality(over) > 3 THEN 3
                                              ELSE Cardinality(over))
               /\ \A v \in over :
                    <<atoms[v], count(v)>> \notin listed =>
                      \A l \in listed : l[2] >= count(v)

\* C16 (amended): _check_lazy_loading fails exactly when some indicator occurs
\* more than 3 times in the body, letter case aside; an indicator that occurs
\* 3 times or fewer is never listed; the reason lists the indicators that
\* occur more than 3 times in the order of the indicator table, each with its
\* count, and only the first 3 of them when there are more, whatever the
\* counts
C16_FirstThreeInTableOrder ==
    outcome.det = "_check_lazy_loading" =>
      LET body == response.body
          atoms == << <<"<img data-src=\"a.jpg\">", "Lazy-load images not loaded">>,
                      <<"<div class=\"skeleton\">", "Skeleton loading state">>,
                      <<"$0.00", "Unloaded price">>,
                      <<"N/A", "Missing data placeholder">> >>
          count(v) == SumSeq([i \in 1..Len(body) |-> IF body[i].v = v THEN body[i].rep ELSE 0])
          over == SelectSeq(atoms, LAMBDA a : count(a[1]) > 3)
          all == [i \in 1..Len(over) |-> <<over[i][2], count(over[i][1])>>]
      IN  IF over = <<>> THEN outcome.valid
          ELSE /\ ~outcome.valid
               /\ outcome.reason.msg = "Unloaded content"
               /\ outcome.reason.list = (IF Len(all) > 3 THEN SubSeq(all, 1, 3) ELSE all)

\* four indicators occur more than 3 times, the last of the table most often:
\* the first three of the table are listed
C16_Witness ==
    /\ outcome.det = "_check_lazy_loading"
    /\ response.body = << Lorem(600), Tag("<img data-src=\"a.jpg\">", 22, 4),
                          Tag("<div class=\"skeleton\">", 22, 4), ZeroPrices(4),
                          Chunk("text", "N/A", 3, 5, 0) >>
    /\ outcome.reason.list = << <<"Lazy-load images not loaded", 4>>,
                                <<"Skeleton loading state", 4>>,
                                <<"Unloaded price", 4>> >>

\* C17 (as the claim states it): _check_pagination applies three sub-checks
\* in order and reports the first that fails: (a) a match of a load-more or
\* 'showing N of M' pattern fails with the matched text; (b) page numbers
\* whose maximum is 1, together with a next-page affordance, fail as 'Only
\* first page content loaded', and a maximum above 1 never fails (b); (c) an
\* infinite-scroll trigger attribute fails; a body with none of the three
\* passes
C17_MatchedText ==
    outcome.det = "_check_pagination" =>
      LET texts == {response.body[i].v : i \in 1..Len(response.body)}
          matched == {"class=\"btn load-more\"",
                      "class=\"btn btn-primary btn-lg pagination-load-more js-more\"",
                      "Showing 12 of 150"}
          loadMore == texts \cap {"<button class=\"btn load-more\">",
                                  "<button class=\"btn btn-primary btn-lg pagination-load-more js-more\">",
                                  "Showing 12 of 150"} # {}
          pageOne == "page=1" \in texts
          pageTwo == "Page 2" \in texts
          next == "Next Page" \in texts \/ pageTwo
          scroll == "<div data-infinite-scroll>" \in texts
      IN  IF loadMore
          THEN /\ ~outcome.valid
               /\ outcome.reason.msg = "Unpaginated content detected"
               /\ outcome.reason.str \in matched
          ELSE IF pageOne /\ ~pageTwo /\ next
               THEN ~outcome.valid /\ outcome.reason.msg = "Only first page content loaded"
               ELSE IF scroll
                    THEN /\ ~outcome.valid
                         /\ outcome.reason.msg = "Infinite scroll not triggered"
                    ELSE outcome.valid

\* C17 (amended): as above, but sub-check (a) fails with the first 50
\* characters of the first match of the first pattern of the list that
\* matches; sub-check (c) reports the trigger attribute
C17_PaginationSubChecks ==
    outcome.det = "_check_pagination" =>
      LET body == response.body
          texts == {body[i].v : i \in 1..Len(body)}
          short == "<button class=\"btn load-more\">"
          long == "<button class=\"btn btn-primary btn-lg pagination-load-more js-more\">"
          buttons == {i \in 1..Len(body) : body[i].v \in {short, long}}
          showing == "Showing 12 of 150" \in texts
          pageOne == "page=1" \in texts
          pageTwo == "Page 2" \in texts
          next == "Next Page" \in texts \/ pageTwo
          scroll == "<div data-infinite-scroll>" \in texts
      IN  IF buttons # {} \/ showing
          THEN /\ ~outcome.valid
               /\ outcome.reason.msg = "Unpaginated content detected"
               /\ outcome.reason.str =
                    (IF buttons = {} THEN "Showing 12 of 150"
                     ELSE IF body[Min(buttons)].v = short THEN "class=\"btn load-more\""
                     ELSE "class=\"btn btn-primary btn-lg pagination-load-more")
          ELSE IF pageOne /\ ~pageTwo /\ next
               THEN ~outcome.valid /\ outcome.reason.msg = "Only first page content loaded"
               ELSE IF scroll
                    THEN /\ ~outcome.valid
                         /\ outcome.reason.msg = "Infinite scroll not triggered"
                         /\ outcome.reason.str = "data-infinite-scroll"
                    ELSE outcome.valid

\* a load-more button whose class attribute is 59 characters long, before a
\* scroll trigger: sub-check (a) is the one reported, with the first 50
\* characters of the attribute
C17_Witness ==
    /\ outcome.det = "_check_pagination"
    /\ response.body =
         << Tag("<button class=\"btn btn-primary btn-lg pagination-load-more js-more\">", 68, 1),
            Tag("<div data-infinite-scroll>", 26, 1) >>
    /\ ~outcome.valid
    /\ outcome.reason.str = "class=\"btn btn-primary btn-lg pagination-load-more"

\* C18: _check_item_count takes the highest match count over item_patterns,
\* fails exactly when it is below the minimum asked for, and then reports the
\* label of the pattern with that count (of the earliest one on a tie), for
\* every body, also one in which no pattern matches
C18_ItemCountLabel ==
    outcome.det = "_check_item_count" =>
      LET body == response.body
          count(v) == SumSeq([i \in 1..Len(body) |-> IF body[i].v = v THEN body[i].rep ELSE 0])
          cards == count("<div class=\"product-card\" data-product-id=\"1\">")
          \* the count of each pattern of the list, in the order of the list
          counts == << cards, cards, count("<li class=\"item\">"), count("<article>"), 0, 0 >>
          labels == << "products", "product cards", "items", "articles", "items", "posts" >>
          highest == Max(Range(counts))
          earliest == Min({i \in 1..Len(counts) : counts[i] = highest})
      IN  /\ outcome.valid <=> highest >= dcd.min_item_count.val
          /\ ~outcome.valid =>
               /\ outcome.reason.num = highest
               /\ outcome.reason.num2 = dcd.min_item_count.val
               /\ outcome.reason.str = labels[earliest]

\* C19: DynamicContentDetector.check_response runs its stages in the order
\* lazy loading, pagination, item count, pattern validation, noscript,
\* structured data and returns the verdict of the first stage that fails; a
\* stage whose option is off (check_lazy_loading false, check_pagination
\* false, min_item_count unset, expected_patterns empty) is skipped and is
\* never the source of the verdict; noscript and structured data are always
\* evaluated when every stage before them passes
C19_StagesInOrder ==
    (outcome.det = "dcd" /\ response.decodable) =>
      LET body == response.body
          has(v) == \E i \in 1..Len(body) : body[i].v = v
          copies(k) == SumSeq([i \in 1..Len(body) |-> IF body[i].k = k THEN body[i].rep ELSE 0])
          cards == SumSeq([i \in 1..Len(body) |->
                             IF body[i].v = "<div class=\"product-card\" data-product-id=\"1\">"
                             THEN body[i].rep ELSE 0])
          \* <<stage, its option is on, it fails on this body, the start of its reason>>
          stages ==
            << <<"lazy_loading", dcd.check_lazy_loading, has("<img data-src=\"a.jpg\">"),
                 "Unloaded content", "">>,
               <<"pagination", dcd.check_pagination, has("Showing 12 of 150"),
                 "Unpaginated content detected", "Showing 12 of 150">>,
               <<"item_count", dcd.min_item_count.some, cards < 4, "Only found", "products">>,
               <<"patterns", dcd.expected_patterns # <<>>, copies("price") < 5,
                 "Only found", "prices">>,
               <<"noscript", TRUE, copies("noscript") > 0, "Large noscript content", "">>,
               <<"structured_data", TRUE, copies("jsonld") > 0,
                 "Product schema missing price", "">> >>
          run == SelectSeq(stages, LAMBDA st : st[2])
          failing == {i \in 1..Len(run) : run[i][3]}
          names == [i \in 1..Len(run) |-> run[i][1]]
      IN  /\ ~outcome.raised
          /\ IF failing = {}
             THEN outcome.valid /\ outcome.ran = <<"decode">> \o names
             ELSE LET first == run[Min(failing)]
                  IN  /\ ~outcome.valid
                      /\ outcome.reason.msg = first[4]
                      /\ outcome.reason.str = first[5]
                      /\ outcome.ran = <<"decode">> \o SubSeq(names, 1, Min(failing))

\* every option is off and the body would fail the lazy-loading, pagination,
\* item-count and pattern stages: the noscript stage is the first run, and
\* the verdict is its verdict
C19_Witness ==
    /\ outcome.det = "dcd"
    /\ ~dcd.check_lazy_loading /\ ~dcd.check_pagination
    /\ ~dcd.min_item_count.some /\ dcd.expected_patterns = <<>>
    /\ response.body = << Lorem(600), Tag("<img data-src=\"a.jpg\">", 22, 4),
                          T("Showing 12 of 150", 17), ProductCard(3), Prices(2),
                          Noscript("lorem", 1001), JsonLd(NoPriceJson) >>
    /\ outcome.reason.msg = "Large noscript content"
    /\ outcome.ran = <<"decode", "noscript">>

\* C21: with check_js_rendering set, a framework pattern (id="root" and the
\* like) makes the placeholder stage fail only together with low text
\* content; a page that holds such a pattern and plentiful rendered text --
\* here at least 600 characters, and more than nine tenths of the body -- is
\* not failed by _check_js_placeholders, alone or as a stage of check_response
C21_FrameworkNeedsLowText ==
    LET body == response.body
        text == SumSeq([i \in 1..Len(body) |-> IF body[i].k = "text" THEN body[i].n ELSE 0])
        total == SumSeq([i \in 1..Len(body) |-> body[i].n * body[i].rep])
        plentiful == text >= 600 /\ 10 * text > 9 * total
    IN  (sfd.check_js_rendering /\ plentiful) =>
          /\ outcome.det = "_check_js_placeholders" => outcome.valid
          /\ outcome.det = "sfd" => outcome.reason.msg # "JS placeholder detected"

\* C22: ScrapingFailureDetector.check_response reads the body at most once
\* in an evaluation, and only after the status, suspicious-status, header,
\* content-type and redirect checks have all passed; when one of them fails,
\* its verdict is returned and the body is never read, so a failure to
\* decode the body never takes the place of such a verdict
C22_BodyReadOnceAfterEarlyChecks ==
    outcome.det = "sfd" =>
      LET early == <<"status", "suspicious_status", "headers", "content_type", "redirects">>
          failing == {i \in 1..Len(early) : ~SfdStage(early[i], sfd, response).valid}
          reads == Cardinality({i \in 1..Len(outcome.ran) : outcome.ran[i] = "decode"})
      IN  /\ reads <= 1
          /\ reads = 1 => failing = {}
          /\ \A i \in 1..Len(outcome.ran) :
               outcome.ran[i] = "decode" =>
                 \A j \in 1..Len(early) : \E k \in 1..(i - 1) : outcome.ran[k] = early[j]
          /\ failing # {} =>
               /\ reads = 0
               /\ ~outcome.raised /\ ~outcome.valid
               /\ outcome.reason = SfdStage(early[Min(failing)], sfd, response).reason
               /\ outcome.reason.msg # "Failed to decode response"

\* a body that cannot be decoded, behind a redirect loop: the verdict of the
\* redirect check, the last before the body is read, is returned and the body
\* is not read
C22_Witness ==
    /\ outcome.det = "sfd"
    /\ ~response.decodable
    /\ response.status = 200
    /\ outcome.reason.msg = "Redirect loop detected"
    /\ "decode" \notin Range(outcome.ran)

====
